---- MODULE Spec2Model ----
(***************************************************************************)
(* A model of the chat client: the socket adapter (services/socket.ts),   *)
(* the conversation list screen (HomeScreen) and the chat screen          *)
(* (app/chat/[id].tsx).                                                    *)
(*                                                                         *)
(* Both screens are React function components.  A callback registered by  *)
(* an effect keeps the state values of the render that created it: the    *)
(* mount effects have the dependency list [], so every handler, interval  *)
(* and timer they register reads the first render's state for the life    *)
(* of the screen; the list screen's focus callback is memoised on         *)
(* [currentUser] and reads the state of the render in which currentUser   *)
(* was set.  Functional updates (setX(prev => ...)) and refs read the     *)
(* live value.  The model keeps the captured values per closure in        *)
(* home.closure and chat.closure.                                          *)
(*                                                                         *)
(* A pending timer holds the ms left until it is due.  Time passes in     *)
(* steps that divide every delay in use, and it does not pass a due       *)
(* timer.                                                                  *)
(***************************************************************************)
EXTENDS Integers, Sequences, FiniteSets, TLC

VARIABLES
    home,   \* the conversation list screen: state, refs, timers, pulls in flight
    chat,   \* the chat screen: state, timers, pulls in flight
    sock,   \* the socket adapter, the handlers registered on it, its last emit
    store,  \* the session store and the route shown
    last    \* the operation that made the last step and its input

vars == <<home, chat, sock, store, last>>

----------------------------------------------------------------------------
(* Identities and bounds *)

NoUser == "undefined"   \* currentUser === null, so currentUser?.id is undefined
Me == "u1"              \* the id of the user stored in the session
Other == "u2"           \* the other participant of conversation ConvA
Third == "u3"           \* the other participant of conversation ConvB
ConvA == "7"
ConvB == "8"

ConvIds == {ConvA, ConvB}
OtherUserOf(c) == IF c = ConvA THEN Other ELSE Third

MaxUnread == 2       \* the largest unread count a snapshot carries
MaxCount == 2        \* message events are taken while every unread count is below it
MaxPulls == 2        \* pulls of one kind in flight at a time
MaxCalls == 3        \* calls of one burst that are counted
MaxChecks == 1       \* pulls of checkAndAddNewConversation in flight at a time
MaxHandlers == 3     \* registrations of the list screen's handlers at a time
MaxMsgTimers == 1    \* pending 1 s timers of the message:new handler

Contents == {"a", "b"}
Times == {"t1", "t2"}
Zero == "0"                      \* useState<number>(0)
Null == "null"

\* Timer delays, in ms
UpdateDebounce == 500
TypingDebounce == 300
TypingReset == 1000
FocusResync == 100
FocusTyping == 500
MessageSync == 1000
TypingStop == 1000

----------------------------------------------------------------------------
(* Sequence helpers *)

SeqMap(F(_), s) == [i \in 1..Len(s) |-> F(s[i])]

RECURSIVE SeqFilter(_, _)
SeqFilter(P(_), s) ==
    IF s = <<>> THEN <<>>
    ELSE (IF P(Head(s)) THEN <<Head(s)>> ELSE <<>>) \o SeqFilter(P, Tail(s))

RemoveAt(s, i) == SubSeq(s, 1, i - 1) \o SubSeq(s, i + 1, Len(s))

\* Pending timers and pulls in flight are bags: which timer fires first is
\* decided by the delays and which pull completes first by the network, never
\* by the order of the calls. A bag is held as a sequence in the order of
\* Slot, so that one bag has one representation.
KindOrder ==
    << "update", "typing", "typingReset", "focusResync", "focusTyping", "msgSync",
       "typingStop",
       "load", "sync", "presence", "checkAdd", "user", "messages", "status" >>

\* One more timer or pull: x goes behind the ones that are not after it
Put(s, x) ==
    LET KindRank(kind) == CHOOSE i \in 1..Len(KindOrder) : KindOrder[i] = kind
        ClRank(cl) == CASE cl = "mount" -> 1 [] cl = "focus" -> 2 [] cl = "refresh" -> 3
        Slot(y) == << KindRank(y.kind), ClRank(y.cl),
                      IF "rem" \in DOMAIN y THEN y.rem ELSE 0 >>
        NotAfter(a, b) ==
            \/ Slot(a)[1] < Slot(b)[1]
            \/ Slot(a)[1] = Slot(b)[1] /\ Slot(a)[2] < Slot(b)[2]
            \/ Slot(a)[1] = Slot(b)[1] /\ Slot(a)[2] = Slot(b)[2] /\ Slot(a)[3] <= Slot(b)[3]
        Front(y) == NotAfter(y, x)
        Back(y) == ~NotAfter(y, x)
    IN SeqFilter(Front, s) \o <<x>> \o SeqFilter(Back, s)

----------------------------------------------------------------------------
(* The conversation list screen: pure parts *)

\* The unread_count of a pulled conversation is a number, a string of
\* characters (a digit 0..9, or -1 for any other character) or null.
RawNum(n) == [t |-> "number", v |-> n]
RawStr(cs) == [t |-> "string", v |-> cs]
RawNull == [t |-> "null", v |-> 0]

IsDigit(ch) == ch \in 0..9

\* parseInt(s): the value of the leading digits; NaN when there are none
RECURSIVE DigitsValue(_, _)
DigitsValue(cs, acc) ==
    IF cs = <<>> \/ ~IsDigit(Head(cs)) THEN acc
    ELSE DigitsValue(Tail(cs), 10 * acc + Head(cs))

ParseIntIsNaN(cs) == cs = <<>> \/ ~IsDigit(Head(cs))
ParseInt(cs) == DigitsValue(cs, 0)

\* typeof c === 'string' ? parseInt(c) || 0 : c || 0
ProcessUnreadCount(raw) ==
    IF raw.t = "string"
    THEN (IF ParseIntIsNaN(raw.v) THEN 0 ELSE ParseInt(raw.v))
    ELSE IF raw.t = "number" THEN raw.v ELSE 0

\* { ...conv, unread_count: <number> }: every field of the response is kept,
\* an other_user_typing the server sent included; without one the flag is
\* undefined, which the screen reads as false
ProcessConversation(c) ==
    [conversation_id |-> c.conversation_id,
     other_user_id |-> c.other_user_id,
     other_user_online |-> c.other_user_online,
     other_user_last_seen |-> c.other_user_last_seen,
     last_message |-> c.last_message,
     last_message_time |-> c.last_message_time,
     last_message_sender_id |-> c.last_message_sender_id,
     unread_count |-> ProcessUnreadCount(c.unread_count),
     other_user_typing |->
         IF "other_user_typing" \in DOMAIN c THEN c.other_user_typing ELSE FALSE]

ProcessConversations(raw) == SeqMap(ProcessConversation, raw)

HasConversation(convs, id) == \E i \in 1..Len(convs) : convs[i].conversation_id = id
FindConversation(convs, id) ==
    convs[CHOOSE i \in 1..Len(convs) :
            /\ convs[i].conversation_id = id
            /\ \A j \in 1..(i - 1) : convs[j].conversation_id # id]

\* The key of the message:new handler's duplicate filter
MessageKey(m) ==
    m.id \o "|" \o m.conversationId \o "|" \o m.sender_id \o "|"
         \o m.created_at \o "|" \o m.content

\* updateConversationWithNewMessage, run by a closure whose currentUser?.id is user
UpdateConversationWithNewMessage(convs, user, m) ==
    LET Upd(conv) ==
            IF conv.conversation_id = m.conversationId
            THEN [conv EXCEPT
                    !.last_message = m.content,
                    !.last_message_time = m.created_at,
                    !.last_message_sender_id = m.sender_id,
                    !.unread_count = IF m.sender_id # user THEN @ + 1 ELSE @]
            ELSE conv
    IN SeqMap(Upd, convs)

\* clearUnreadCountForConversation
ClearUnreadCountForConversation(convs, id) ==
    LET Upd(conv) ==
            IF conv.conversation_id = id THEN [conv EXCEPT !.unread_count = 0] ELSE conv
    IN SeqMap(Upd, convs)

\* The presence update without the test of the participant
UpdateUserOnlineStatusAll(convs, userId, isOnline) ==
    LET Upd(conv) == [conv EXCEPT !.other_user_online = isOnline]
    IN SeqMap(Upd, convs)

\* updateUserOnlineStatus
UpdateUserOnlineStatus(convs, userId, isOnline) ==
    LET Upd(conv) ==
            IF conv.other_user_id = userId
            THEN [conv EXCEPT !.other_user_online = isOnline] ELSE conv
    IN SeqMap(Upd, convs)

\* The final unread count without the freshness test: the snapshot always wins
FinalUnreadCountIncoming(existingConv, newConv) == newConv.unread_count

\* The unread count the silent sync keeps for a conversation it already holds
FinalUnreadCount(existingConv, newConv) ==
    LET shouldPreserveUnreadCount ==
            /\ existingConv.last_message_time = newConv.last_message_time
            /\ existingConv.last_message = newConv.last_message
            /\ existingConv.last_message_sender_id = newConv.last_message_sender_id
    IN IF shouldPreserveUnreadCount /\ existingConv.unread_count > newConv.unread_count
       THEN existingConv.unread_count
       ELSE newConv.unread_count

\* The merge without the line that keeps the local typing flag
MergeSnapshotTakingTyping(prev, processedConversations) ==
    LET Merge(newConv) ==
            IF HasConversation(prev, newConv.conversation_id)
            THEN LET existingConv == FindConversation(prev, newConv.conversation_id)
                 IN [newConv EXCEPT
                       !.unread_count = FinalUnreadCount(existingConv, newConv)]
            ELSE newConv
    IN SeqMap(Merge, processedConversations)

\* The functional update of the silent sync: the processed snapshot, each
\* conversation already held keeping its typing flag and its final unread count
MergeSnapshot(prev, processedConversations) ==
    LET Merge(newConv) ==
            IF HasConversation(prev, newConv.conversation_id)
            THEN LET existingConv == FindConversation(prev, newConv.conversation_id)
                 IN [newConv EXCEPT
                       !.other_user_typing = existingConv.other_user_typing,
                       !.unread_count = FinalUnreadCount(existingConv, newConv)]
            ELSE newConv
    IN SeqMap(Merge, processedConversations)

\* The presence refresh written over the snapshot instead of the list: the
\* conversations the snapshot lacks are lost
MergePresenceOverSnapshot(prev, rawConversations) ==
    LET Held(c) == HasConversation(prev, c.conversation_id)
        Upd(c) ==
            [FindConversation(prev, c.conversation_id) EXCEPT
                !.other_user_online = c.other_user_online,
                !.other_user_last_seen =
                    IF c.other_user_last_seen = "" THEN @ ELSE c.other_user_last_seen]
    IN SeqMap(Upd, SeqFilter(Held, rawConversations))

\* The functional update of refreshUserStatus: presence fields only; a falsy
\* last-seen in the snapshot keeps the local one
MergePresence(prev, rawConversations) ==
    LET Upd(conv) ==
            IF HasConversation(rawConversations, conv.conversation_id)
            THEN LET updatedUser == FindConversation(rawConversations, conv.conversation_id)
                 IN [conv EXCEPT
                       !.other_user_online = updatedUser.other_user_online,
                       !.other_user_last_seen =
                           IF updatedUser.other_user_last_seen = "" THEN @
                           ELSE updatedUser.other_user_last_seen]
            ELSE conv
    IN SeqMap(Upd, prev)

\* The insertion without the test of the list it is applied to
AddNewConversationUnchecked(prev, processedConversation) ==
    <<processedConversation>> \o prev

\* The functional update of checkAndAddNewConversation
AddNewConversation(prev, processedConversation) ==
    IF HasConversation(prev, processedConversation.conversation_id)
    THEN prev
    ELSE <<processedConversation>> \o prev

----------------------------------------------------------------------------
(* The conversation list screen: state, closures, timers and pulls *)

\* The state values a closure of a render reads
RenderEnv(h) ==
    [currentUser |-> h.currentUser,
     conversations |-> h.conversations,
     isUpdatingConversations |-> h.isUpdatingConversations,
     isRefreshingTyping |-> h.isRefreshingTyping,
     lastMessageUpdate |-> h.lastMessageUpdate]

\* The history of the calls of updateConversationsSilently (not program
\* state).  A burst is a run of calls each made while the timer of the call
\* before is still pending, that is, less than the debounce delay after it.
\* calls counts them, pulls counts the pulls the sync has started since the
\* burst began, clean says that no sync was in flight at any of its calls,
\* cancelled that a cleanup cleared its timer.
NoBurst == [calls |-> 0, pulls |-> 0, clean |-> TRUE, cancelled |-> FALSE]

\* HomeScreen after its first render: the useState and useRef initial values
HomeInit ==
    LET h0 == [currentUser |-> NoUser,
               conversations |-> <<>>,
               isUpdatingConversations |-> FALSE,
               isRefreshingTyping |-> FALSE,
               lastMessageUpdate |-> Zero]
    IN [mounted |-> TRUE,
        phase |-> "init",
        focused |-> TRUE,
        intervals |-> FALSE,
        currentUser |-> NoUser,
        conversations |-> <<>>,
        typingUsers |-> {},
        isRefreshingTyping |-> FALSE,
        isUpdatingConversations |-> FALSE,
        lastMessageUpdate |-> Zero,
        processedMessageKeys |-> {},
        closure |-> [mount |-> h0, focus |-> h0],
        timers |-> <<>>,
        pulls |-> <<>>,
        burst |-> NoBurst]

Timer(kind, cl, rem, now) == [kind |-> kind, cl |-> cl, rem |-> rem, now |-> now]
Pull(kind, cl, conv) == [kind |-> kind, cl |-> cl, conv |-> conv]

CountKind(s, kind) == Cardinality({i \in 1..Len(s) : s[i].kind = kind})

\* clearTimeout(ref.current): the timer the ref holds, when it is still pending
ClearTimeout(timers, kind) ==
    LET Keep(t) == t.kind # kind IN SeqFilter(Keep, timers)

\* The burst history after one more call
NoteCall(h) ==
    LET idle == CountKind(h.pulls, "sync") = 0
    IN IF CountKind(h.timers, "update") = 0
       THEN [calls |-> 1, pulls |-> 0, clean |-> idle, cancelled |-> FALSE]
       ELSE [h.burst EXCEPT
               !.calls = IF @ < MaxCalls THEN @ + 1 ELSE @,
               !.clean = @ /\ idle]

\* updateConversationsSilently without its clearTimeout: every call adds a timer
UpdateConversationsSilentlyStacking(h, cl) ==
    IF h.closure[cl].isUpdatingConversations
    THEN h
    ELSE [h EXCEPT
            !.timers = Put(@, Timer("update", cl, UpdateDebounce, Zero)),
            !.burst = NoteCall(h)]

\* updateConversationsSilently, called from closure cl: the guard reads the
\* closure's isUpdatingConversations, the timer is held by updateTimeoutRef
UpdateConversationsSilently(h, cl) ==
    IF h.closure[cl].isUpdatingConversations
    THEN h
    ELSE [h EXCEPT
            !.timers = Put(ClearTimeout(@, "update"),
                              Timer("update", cl, UpdateDebounce, Zero)),
            !.burst = NoteCall(h)]

\* refreshTypingStatus, called from closure cl
RefreshTypingStatus(h, cl) ==
    IF h.closure[cl].isRefreshingTyping
    THEN h
    ELSE [h EXCEPT !.timers =
            Put(ClearTimeout(@, "typing"), Timer("typing", cl, TypingDebounce, Zero))]

\* refreshUserStatus: the pull starts at once
RefreshUserStatus(h, cl) ==
    [h EXCEPT !.pulls = Put(@, Pull("presence", cl, Null))]

\* checkAndAddNewConversation up to its await: the closure's conversations decide
CheckAndAddNewConversation(h, cl, m) ==
    IF HasConversation(h.closure[cl].conversations, m.conversationId)
    THEN h
    ELSE [h EXCEPT !.pulls = Put(@, Pull("checkAdd", cl, m.conversationId))]

----------------------------------------------------------------------------
(* The handlers setupSocketListeners of the list screen registers *)

\* The event each handler is registered for
EventOf(fn) ==
    CASE fn = "onNewMessage" -> "message:new"
      [] fn = "onMessageRead" -> "message:read"
      [] fn = "onConversationOpened" -> "conversation_opened"
      [] fn = "onCustomEvent" -> "conversation_opened"
      [] fn = "onConversationsUpdated" -> "conversations_updated"
      [] fn = "onUserStatusChange" -> "user_status_change"
      [] fn = "onUserTypingStatus" -> "user_typing_status"
      [] fn = "onTypingStart" -> "typing:start"
      [] fn = "onTypingStop" -> "typing:stop"
      [] fn = "onMessageDelivered" -> "message:delivered"
      [] fn = "onConnect" -> "connect"
      [] fn = "onAuthenticated" -> "authenticated"
      [] fn = "onAuthenticationError" -> "authentication_error"
      [] fn = "onConnectError" -> "connect_error"
      [] fn = "onDisconnect" -> "disconnect"
      [] fn = "onReconnect" -> "reconnect"

\* The handlers one caller registered in one go, in the order of sock.handlers;
\* fns are those of them still registered
Registration(owner, cl, fns) == [owner |-> owner, cl |-> cl, fns |-> fns]

\* One run of setupSocketListeners from closure cl: socket.on adds, it never replaces
HomeListeners(cl) ==
    << Registration("home", cl,
         {"onNewMessage", "onMessageRead", "onConversationOpened", "onCustomEvent",
          "onConversationsUpdated", "onUserStatusChange", "onUserTypingStatus",
          "onTypingStart", "onTypingStop", "onMessageDelivered"}) >>

\* The message:new handler of the list screen
\* The message:new handler with its duplicate filter taken out
HomeOnNewMessageUnfiltered(h, cl, m, now) ==
    LET h1 == [h EXCEPT
                 !.processedMessageKeys = @ \cup {MessageKey(m)},
                 !.conversations =
                     UpdateConversationWithNewMessage(@, h.closure[cl].currentUser, m)]
        h2 == CheckAndAddNewConversation(h1, cl, m)
    IN [h2 EXCEPT
          !.lastMessageUpdate = now,
          !.timers = Put(@, Timer("msgSync", cl, MessageSync, now))]

HomeOnNewMessage(h, cl, m, now) ==
    IF MessageKey(m) \in h.processedMessageKeys
    THEN h
    ELSE LET h1 == [h EXCEPT
                      !.processedMessageKeys = @ \cup {MessageKey(m)},
                      !.conversations =
                          UpdateConversationWithNewMessage(@, h.closure[cl].currentUser, m)]
             h2 == CheckAndAddNewConversation(h1, cl, m)
         IN [h2 EXCEPT
               !.lastMessageUpdate = now,
               !.timers = Put(@, Timer("msgSync", cl, MessageSync, now))]

\* The read/opened handler with its comparison of user ids taken out
HomeOnReadOrOpenedUnscoped(h, cl, d) ==
    [h EXCEPT !.conversations = ClearUnreadCountForConversation(@, d.conversationId)]

\* The message:read and conversation_opened handlers of the list screen
HomeOnReadOrOpened(h, cl, d) ==
    IF d.userId = h.closure[cl].currentUser
    THEN [h EXCEPT !.conversations = ClearUnreadCountForConversation(@, d.conversationId)]
    ELSE h

HomeOnConversationsUpdated(h, cl, d) ==
    IF d.userId = h.closure[cl].currentUser
    THEN UpdateConversationsSilently(h, cl)
    ELSE h

HomeOnUserStatusChange(h, d) ==
    [h EXCEPT !.conversations = UpdateUserOnlineStatus(@, d.userId, d.isOnline)]

HomeOnUserTypingStatus(h, cl, d) ==
    IF d.userId # h.closure[cl].currentUser
    THEN [h EXCEPT !.typingUsers =
            IF d.isTyping THEN @ \cup {d.userId} ELSE @ \ {d.userId}]
    ELSE h

HomeOnTypingStart(h, cl, d) ==
    IF d.userId # h.closure[cl].currentUser
    THEN [h EXCEPT !.typingUsers = @ \cup {d.userId}]
    ELSE h

HomeOnTypingStop(h, cl, d) ==
    IF d.userId # h.closure[cl].currentUser
    THEN [h EXCEPT !.typingUsers = @ \ {d.userId}]
    ELSE h

HomeHandle(h, fn, cl, d, now) ==
    CASE fn = "onNewMessage" -> HomeOnNewMessage(h, cl, d, now)
      [] fn \in {"onMessageRead", "onConversationOpened", "onCustomEvent"} ->
            HomeOnReadOrOpened(h, cl, d)
      [] fn = "onConversationsUpdated" -> HomeOnConversationsUpdated(h, cl, d)
      [] fn = "onUserStatusChange" -> HomeOnUserStatusChange(h, d)
      [] fn = "onUserTypingStatus" -> HomeOnUserTypingStatus(h, cl, d)
      [] fn = "onTypingStart" -> HomeOnTypingStart(h, cl, d)
      [] fn = "onTypingStop" -> HomeOnTypingStop(h, cl, d)
      [] OTHER -> h

\* The handlers of one registration that listen to the event, in the order
\* setupSocketListeners registers them
HandlersFor(reg, event) ==
    LET order == << "onNewMessage", "onMessageRead", "onConversationOpened",
                    "onCustomEvent", "onConversationsUpdated", "onUserStatusChange",
                    "onUserTypingStatus", "onTypingStart", "onTypingStop",
                    "onMessageDelivered" >>
        Listens(fn) == fn \in reg.fns /\ EventOf(fn) = event
    IN SeqFilter(Listens, order)

RECURSIVE HomeRun(_, _, _, _, _)
HomeRun(h, fns, cl, d, now) ==
    IF fns = <<>> THEN h
    ELSE HomeRun(HomeHandle(h, Head(fns), cl, d, now), Tail(fns), cl, d, now)

\* An inbound event runs every handler registered for it, in registration order
RECURSIVE HomeDispatch(_, _, _, _, _)
HomeDispatch(h, regs, event, d, now) ==
    IF regs = <<>> THEN h
    ELSE LET reg == Head(regs)
             h1 == IF reg.owner = "home"
                   THEN HomeRun(h, HandlersFor(reg, event), reg.cl, d, now) ELSE h
         IN HomeDispatch(h1, Tail(regs), event, d, now)

----------------------------------------------------------------------------
(* The chat screen *)

OpenConversation == ConvA            \* params.id of the open chat
OtherUserId == OtherUserOf(ConvA)    \* params.otherUserId

\* ChatScreen after its first render
ChatInit ==
    [mounted |-> FALSE,
     focused |-> FALSE,
     effectDue |-> FALSE,
     statusInterval |-> FALSE,
     currentUser |-> NoUser,
     messages |-> <<>>,
     newMessage |-> "",
     isTyping |-> FALSE,
     typingTimeout |-> FALSE,
     otherUserOnline |-> FALSE,
     closure |-> [mount |-> [currentUser |-> NoUser]],
     timers |-> <<>>,
     pulls |-> <<>>]

HasMessage(msgs, id) == \E i \in 1..Len(msgs) : msgs[i].id = id

\* One run of the chat screen's setupSocketListeners (mount effect only)
ChatListeners(cl) ==
    << Registration("chat", cl,
         {"onNewMessage", "onTypingStart", "onTypingStop", "onUserStatusChange",
          "onUserTypingStatus", "onMessageDelivered", "onMessageRead"}) >>

\* The message:new update without its test for an id already held: the
\* arriving copy takes the place of the held one
AppendNewMessageUpsert(prev, message) ==
    LET NotIt(msg) == msg.id # message.id
    IN Append(SeqFilter(NotIt, prev),
              [message EXCEPT !.is_delivered = (message.deliveryStatus = "delivered") \/ @])

\* The functional update of the chat screen's message:new handler
AppendNewMessage(prev, message) ==
    IF HasMessage(prev, message.id)
    THEN prev
    ELSE Append(prev, [message EXCEPT
                         !.is_delivered = (message.deliveryStatus = "delivered") \/ @])

\* The message:new handler without its test of the event's conversation
ChatOnNewMessageUnscoped(c, m) ==
    [c EXCEPT !.messages = AppendNewMessage(@, m)]

\* The chat screen's message:new handler
ChatOnNewMessage(c, m) ==
    IF m.conversationId = OpenConversation
    THEN [c EXCEPT !.messages = AppendNewMessage(@, m)]
    ELSE c

\* The functional update of the message:delivered handler
MarkDelivered(prev, messageId) ==
    LET Upd(msg) == IF msg.id = messageId THEN [msg EXCEPT !.is_delivered = TRUE] ELSE msg
    IN SeqMap(Upd, prev)

ChatOnMessageDelivered(c, d) ==
    IF d.conversationId = OpenConversation
    THEN [c EXCEPT !.messages = MarkDelivered(@, d.messageId)]
    ELSE c

\* The update written with the filter of markMessagesAsRead: only the
\* messages of the other participant are marked
MarkReadIncoming(prev, messageIds) ==
    LET Upd(msg) ==
            IF msg.id \in messageIds /\ msg.sender_id = OtherUserId
            THEN [msg EXCEPT !.is_read = TRUE] ELSE msg
    IN SeqMap(Upd, prev)

\* The functional update of the message:read handler
MarkRead(prev, messageIds) ==
    LET Upd(msg) == IF msg.id \in messageIds THEN [msg EXCEPT !.is_read = TRUE] ELSE msg
    IN SeqMap(Upd, prev)

ChatOnMessageRead(c, d) ==
    IF d.conversationId = OpenConversation
    THEN [c EXCEPT !.messages = MarkRead(@, d.messageIds)]
    ELSE c

\* getTickStatus of a rendered message: own messages only
GetTickStatus(c, item) ==
    IF item.sender_id # c.currentUser THEN "none"
    ELSE IF item.is_read THEN "read"
    ELSE IF item.is_delivered THEN "delivered"
    ELSE "sent"

\* updatePendingMessageDeliveryStatus, run by a closure whose currentUser?.id is user
UpdatePendingMessageDeliveryStatus(prev, user) ==
    LET Upd(msg) ==
            IF msg.sender_id = user /\ ~msg.is_delivered
            THEN [msg EXCEPT !.is_delivered = TRUE] ELSE msg
    IN IF user = NoUser THEN prev ELSE SeqMap(Upd, prev)

ChatOnUserStatusChange(c, cl, d) ==
    IF d.userId = OtherUserId
    THEN [c EXCEPT
            !.otherUserOnline = d.isOnline,
            !.messages = IF d.isOnline
                         THEN UpdatePendingMessageDeliveryStatus(@, c.closure[cl].currentUser)
                         ELSE @]
    ELSE c

ChatOnTypingStart(c, cl, d) ==
    IF d.conversationId = OpenConversation /\ d.userId # c.closure[cl].currentUser
    THEN [c EXCEPT !.isTyping = TRUE] ELSE c

ChatOnTypingStop(c, cl, d) ==
    IF d.conversationId = OpenConversation /\ d.userId # c.closure[cl].currentUser
    THEN [c EXCEPT !.isTyping = FALSE] ELSE c

ChatOnUserTypingStatus(c, d) ==
    IF d.userId = OtherUserId THEN [c EXCEPT !.isTyping = d.isTyping] ELSE c

\* The functional update of markMessagesAsRead
MarkMessagesAsRead(prev, user) ==
    LET Upd(msg) ==
            IF msg.sender_id # user /\ ~msg.is_read
            THEN [msg EXCEPT !.is_read = TRUE] ELSE msg
    IN SeqMap(Upd, prev)

UnreadFromOther(msgs, user) ==
    \E i \in 1..Len(msgs) : msgs[i].sender_id # user /\ ~msgs[i].is_read

ChatHandle(c, fn, cl, d) ==
    CASE fn = "onNewMessage" -> ChatOnNewMessage(c, d)
      [] fn = "onMessageDelivered" -> ChatOnMessageDelivered(c, d)
      [] fn = "onMessageRead" -> ChatOnMessageRead(c, d)
      [] fn = "onUserStatusChange" -> ChatOnUserStatusChange(c, cl, d)
      [] fn = "onTypingStart" -> ChatOnTypingStart(c, cl, d)
      [] fn = "onTypingStop" -> ChatOnTypingStop(c, cl, d)
      [] fn = "onUserTypingStatus" -> ChatOnUserTypingStatus(c, d)
      [] OTHER -> c

RECURSIVE ChatRun(_, _, _, _)
ChatRun(c, fns, cl, d) ==
    IF fns = <<>> THEN c
    ELSE ChatRun(ChatHandle(c, Head(fns), cl, d), Tail(fns), cl, d)

RECURSIVE ChatDispatch(_, _, _, _)
ChatDispatch(c, regs, event, d) ==
    IF regs = <<>> THEN c
    ELSE LET reg == Head(regs)
             c1 == IF reg.owner = "chat"
                   THEN ChatRun(c, HandlersFor(reg, event), reg.cl, d) ELSE c
         IN ChatDispatch(c1, Tail(regs), event, d)

\* A state change of messages or currentUser re-renders the chat screen, and a
\* focused screen then runs its focus effect again
ChatRendered(c, c1) ==
    IF c1.messages # c.messages \/ c1.currentUser # c.currentUser
    THEN [c1 EXCEPT !.effectDue = c1.mounted /\ c1.focused]
    ELSE c1

----------------------------------------------------------------------------
(* The socket adapter *)

\* The handlers connect() registers on the socket it creates
AdapterListeners ==
    << Registration("adapter", "service",
         {"onConnect", "onAuthenticated", "onAuthenticationError", "onConnectError",
          "onDisconnect", "onReconnect"}) >>

\* new SocketService(): no socket, not connected, no heartbeat.  link, everUp,
\* reconnectDue, authSent and authed are the transport's and the server's side
\* of the connection: whether it is up, whether it was up before, whether a
\* 'reconnect' event is still to be reported, whether the server holds an
\* authenticate command it has not answered, whether it accepted one.
\* cycleAuths counts the authenticate commands emitted since the transport
\* last connected.
SockInit ==
    [socket |-> FALSE,
     isConnected |-> FALSE,
     heartbeatInterval |-> FALSE,
     link |-> "down",
     everUp |-> FALSE,
     reconnectDue |-> FALSE,
     authSent |-> FALSE,
     authed |-> FALSE,
     cycleAuths |-> 0,
     handlers |-> <<>>]

HasHandler(sk, event, fn) ==
    \E i \in 1..Len(sk.handlers) : fn \in sk.handlers[i].fns /\ EventOf(fn) = event

CountHandlers(sk, owner, fn) ==
    Cardinality({i \in 1..Len(sk.handlers) :
                    sk.handlers[i].owner = owner /\ fn \in sk.handlers[i].fns})

\* socket.on(event, callback) behind "if (this.socket)"
AddListeners(sk, regs) ==
    IF sk.socket THEN [sk EXCEPT !.handlers = @ \o regs] ELSE sk

\* socket.removeAllListeners() behind "if (this.socket)"
RemoveAllListeners(sk) ==
    IF sk.socket THEN [sk EXCEPT !.handlers = <<>>] ELSE sk

\* socket.off(eventName) behind "if (this.socket)": every handler of the event
RemoveCustomEventListener(sk, event) ==
    LET Off(reg) == [reg EXCEPT !.fns = {fn \in @ : EventOf(fn) # event}]
        Left(reg) == reg.fns # {}
    IN IF sk.socket
       THEN [sk EXCEPT !.handlers = SeqFilter(Left, SeqMap(Off, @))]
       ELSE sk

\* What a guarded send operation puts on the wire
Emit(sk, cmd) == IF sk.socket /\ sk.isConnected THEN <<cmd>> ELSE <<>>

SendOps ==
    {"updateAppState", "joinConversation", "leaveConversation", "sendMessage",
     "startTyping", "stopTyping", "markAsRead", "emitCustomEvent"}

CommandOf(op) ==
    CASE op = "updateAppState" -> "app_state_change"
      [] op = "joinConversation" -> "join"
      [] op = "leaveConversation" -> "leave"
      [] op = "sendMessage" -> "message:send"
      [] op = "startTyping" -> "typing:start"
      [] op = "stopTyping" -> "typing:stop"
      [] op = "markAsRead" -> "message:read"
      [] op = "emitCustomEvent" -> "custom"

StoreInit == [authToken |-> TRUE, route |-> "home"]

\* The record of a step: the operation, its input, what the adapter put on the
\* wire during it, and whether it was a message:new event the list screen's
\* duplicate filter already held
Noted(op, payload, emits, dup) ==
    [op |-> op, payload |-> payload, emits |-> emits, dup |-> dup]
Did(op, d, emits) == Noted(op, d, emits, FALSE)

----------------------------------------------------------------------------
(* The socket adapter: operations *)

\* connect(): a token is needed; a new socket with the adapter's handlers
Connect ==
    /\ store.authToken
    /\ ~sock.socket
    /\ sock' = [sock EXCEPT !.socket = TRUE, !.handlers = AdapterListeners]
    /\ last' = Did("connect()", Null, <<>>)
    /\ UNCHANGED <<home, chat, store>>

\* The transport connects (first connection or reconnection): 'connect'
OnConnect ==
    /\ sock.socket /\ sock.link = "down"
    /\ LET handled == HasHandler(sock, "connect", "onConnect")
       IN /\ sock' = [sock EXCEPT
                        !.link = "up",
                        !.everUp = TRUE,
                        !.reconnectDue = sock.everUp,
                        !.authed = FALSE,
                        !.authSent = handled,
                        !.cycleAuths = IF handled THEN 1 ELSE 0,
                        !.isConnected = IF handled THEN TRUE ELSE @]
          /\ last' = Did("connect", [again |-> sock.everUp],
                         IF handled THEN <<"authenticate">> ELSE <<>>)
    /\ UNCHANGED <<home, chat, store>>

\* The socket reports 'reconnect' after a reconnection
OnReconnect ==
    /\ sock.socket /\ sock.link = "up" /\ sock.reconnectDue
    /\ LET handled == HasHandler(sock, "reconnect", "onReconnect")
       IN /\ sock' = [sock EXCEPT
                        !.reconnectDue = FALSE,
                        !.authSent = @ \/ handled,
                        !.cycleAuths = IF handled THEN @ + 1 ELSE @,
                        !.isConnected = IF handled THEN TRUE ELSE @]
          /\ last' = Did("reconnect", Null,
                         IF handled THEN <<"authenticate">> ELSE <<>>)
    /\ UNCHANGED <<home, chat, store>>

\* startHeartbeat / stopHeartbeat: one interval at most
StartHeartbeat(sk) == [sk EXCEPT !.heartbeatInterval = TRUE]
StopHeartbeat(sk) == [sk EXCEPT !.heartbeatInterval = FALSE]

\* The server accepts the authenticate command: 'authenticated'
OnAuthenticated ==
    /\ sock.socket /\ sock.link = "up" /\ sock.authSent
    /\ LET sk == [sock EXCEPT !.authSent = FALSE, !.authed = TRUE]
       IN sock' = IF HasHandler(sock, "authenticated", "onAuthenticated")
                  THEN StartHeartbeat(sk) ELSE sk
    /\ last' = Did("authenticated", Null, <<>>)
    /\ UNCHANGED <<home, chat, store>>

\* The server rejects the authenticate command: 'authentication_error'
OnAuthenticationError ==
    /\ sock.socket /\ sock.link = "up" /\ sock.authSent
    /\ LET sk == [sock EXCEPT !.authSent = FALSE, !.authed = FALSE]
       IN sock' = IF HasHandler(sock, "authentication_error", "onAuthenticationError")
                  THEN [sk EXCEPT !.isConnected = FALSE] ELSE sk
    /\ last' = Did("authentication_error", Null, <<>>)
    /\ UNCHANGED <<home, chat, store>>

\* A connection attempt fails: 'connect_error'
OnConnectError ==
    /\ sock.socket /\ sock.link = "down"
    /\ sock' = IF HasHandler(sock, "connect_error", "onConnectError")
               THEN [sock EXCEPT !.isConnected = FALSE] ELSE sock
    /\ last' = Did("connect_error", Null, <<>>)
    /\ UNCHANGED <<home, chat, store>>

\* The transport drops: 'disconnect'
OnDisconnect ==
    /\ sock.socket /\ sock.link = "up"
    /\ LET sk == [sock EXCEPT !.link = "down", !.reconnectDue = FALSE,
                              !.authSent = FALSE, !.authed = FALSE]
       IN sock' = IF HasHandler(sock, "disconnect", "onDisconnect")
                  THEN StopHeartbeat([sk EXCEPT !.isConnected = FALSE]) ELSE sk
    /\ last' = Did("disconnect", Null, <<>>)
    /\ UNCHANGED <<home, chat, store>>

\* The heartbeat interval fires
Heartbeat ==
    /\ sock.heartbeatInterval
    /\ last' = Did("heartbeat", Null,
                   IF sock.socket /\ sock.isConnected THEN <<"heartbeat">> ELSE <<>>)
    /\ UNCHANGED <<home, chat, sock, store>>

\* A caller uses one of the adapter's send operations
Send(op) ==
    /\ last' = Did(op, Null, Emit(sock, CommandOf(op)))
    /\ UNCHANGED <<home, chat, sock, store>>

\* handleLogout of the tab layout: the stored credentials are removed and the
\* router goes to the login screen; the adapter is not called
HandleLogout ==
    /\ store.route = "home"
    /\ store' = [store EXCEPT !.authToken = FALSE, !.route = "login"]
    /\ last' = Did("handleLogout", Null, <<>>)
    /\ UNCHANGED <<home, chat, sock>>

\* A screen's teardown calls removeAllListeners()
ScreenRemovesAllListeners ==
    /\ sock.socket /\ sock.handlers # <<>>
    /\ sock' = RemoveAllListeners(sock)
    /\ last' = Did("removeAllListeners", Null, <<>>)
    /\ UNCHANGED <<home, chat, store>>

----------------------------------------------------------------------------
(* The conversation list screen: operations *)

SetTimer(h, kind, cl, rem, now) == [h EXCEPT !.timers = Put(@, Timer(kind, cl, rem, now))]

\* The cleanup of the focus effect: both debounce timers, and socket.off
FocusCleanup(h) ==
    [h EXCEPT
       !.timers = ClearTimeout(ClearTimeout(@, "update"), "typing"),
       !.burst.cancelled = @ \/ CountKind(h.timers, "update") > 0]

\* The focus effect's callback, as memoised for the closure "focus"
FocusCallback(h) ==
    IF h.closure.focus.currentUser # NoUser
    THEN LET h1 == UpdateConversationsSilently(h, "focus")
             h2 == SetTimer(h1, "focusResync", "focus", FocusResync, Zero)
         IN SetTimer(h2, "focusTyping", "focus", FocusTyping, Zero)
    ELSE h

\* The mount effect up to the await of loadConversations: the user is read
\* from the store and set (the screen renders again, the focus callback is
\* memoised anew and a focused screen runs it), the socket is created, the
\* first load starts
CheckAuthAndLoadData ==
    /\ home.mounted /\ home.phase = "init"
    /\ IF ~store.authToken
       THEN /\ home' = [home EXCEPT !.phase = "done"]
            /\ store' = [store EXCEPT !.route = "login"]
            /\ sock' = sock
       ELSE LET h1 == [home EXCEPT !.currentUser = Me]
                h2 == [h1 EXCEPT !.closure.focus = RenderEnv(h1)]
                h3 == IF h2.focused THEN FocusCallback(FocusCleanup(h2)) ELSE h2
                sk == IF h2.focused
                      THEN RemoveCustomEventListener(sock, "conversation_opened")
                      ELSE sock
            IN /\ home' = [h3 EXCEPT !.phase = "loading",
                                     !.pulls = Put(@, Pull("load", "mount", Null))]
               /\ sock' = [sk EXCEPT !.socket = TRUE, !.handlers = AdapterListeners]
               /\ store' = store
    /\ last' = Did("checkAuthAndLoadData", Null, <<>>)
    /\ UNCHANGED chat

\* The response interceptor of the API client: a 401 clears the session store
Intercept(st, outcome) ==
    IF outcome = "unauthorized" THEN [st EXCEPT !.authToken = FALSE] ELSE st

ForceLogout(st, outcome) ==
    IF outcome = "unauthorized" THEN [st EXCEPT !.authToken = FALSE, !.route = "login"] ELSE st

\* loadConversations after its await; the mount effect then registers the
\* handlers and starts the two intervals
LoadConversationsDone(i, outcome, raw) ==
    /\ i \in 1..Len(home.pulls) /\ home.pulls[i].kind = "load"
    /\ LET p == home.pulls[i]
           h1 == [home EXCEPT
                    !.pulls = RemoveAt(@, i),
                    !.conversations = IF outcome = "ok" THEN ProcessConversations(raw) ELSE @]
       IN IF p.cl = "mount"
          THEN /\ home' = [h1 EXCEPT !.phase = "ready", !.intervals = TRUE]
               /\ sock' = AddListeners(sock, HomeListeners("mount"))
          ELSE /\ home' = h1
               /\ sock' = sock
    /\ store' = ForceLogout(store, outcome)
    /\ last' = Did("loadConversationsDone", outcome, <<>>)
    /\ UNCHANGED chat

\* Pull to refresh
OnRefresh ==
    /\ home.mounted /\ home.focused /\ home.phase = "ready"
    /\ CountKind(home.pulls, "load") < MaxPulls
    /\ home' = [home EXCEPT !.pulls = Put(@, Pull("load", "refresh", Null))]
    /\ last' = Did("onRefresh", Null, <<>>)
    /\ UNCHANGED <<chat, sock, store>>

\* Handler registrations of the list screen, made or on their way
HomeRegistrations ==
    CountHandlers(sock, "home", "onNewMessage")
        + CountKind(home.timers, "typing") + CountKind(home.timers, "focusTyping")

\* The 30 s interval of the mount effect
StatusInterval ==
    /\ home.intervals
    /\ CountKind(home.pulls, "presence") < MaxPulls
    /\ HomeRegistrations < MaxHandlers
    /\ home' = RefreshTypingStatus(RefreshUserStatus(home, "mount"), "mount")
    /\ last' = Did("statusInterval", Null, <<>>)
    /\ UNCHANGED <<chat, sock, store>>

\* The 20 s interval of the mount effect
ConversationInterval ==
    /\ home.intervals
    /\ CountKind(home.pulls, "sync") < MaxPulls
    /\ home' = UpdateConversationsSilently(home, "mount")
    /\ last' = Did("conversationInterval", Null, <<>>)
    /\ UNCHANGED <<chat, sock, store>>

\* The list screen gains focus: the focus effect's callback runs
FocusHome ==
    /\ home.mounted /\ ~home.focused
    /\ CountKind(home.timers, "focusResync") = 0
    /\ HomeRegistrations < MaxHandlers
    /\ CountKind(home.pulls, "sync") < MaxPulls
    /\ home' = FocusCallback([home EXCEPT !.focused = TRUE])
    /\ last' = Did("focus", Null, <<>>)
    /\ UNCHANGED <<chat, sock, store>>

\* The list screen loses focus: the focus effect's cleanup runs
BlurHome ==
    /\ home.mounted /\ home.focused /\ home.phase = "ready"
    /\ home' = FocusCleanup([home EXCEPT !.focused = FALSE])
    /\ sock' = RemoveCustomEventListener(sock, "conversation_opened")
    /\ last' = Did("blur", Null, <<>>)
    /\ UNCHANGED <<chat, store>>

\* The list screen unmounts: the focus effect's cleanup and the mount effect's
\* cleanup run.  Every handler leaves the socket, typingUsers is emptied and
\* the two debounce timers are cleared.  The cleanup that clears the two
\* intervals is returned by the async function inside the effect and is never
\* run; the other timers are held by nothing.
HomeUnmount ==
    /\ home.mounted /\ home.phase = "ready"
    /\ home' = [FocusCleanup(home) EXCEPT
                  !.mounted = FALSE, !.focused = FALSE, !.typingUsers = {}]
    /\ sock' = RemoveCustomEventListener(RemoveAllListeners(sock), "conversation_opened")
    /\ last' = Did("homeUnmount", Null, <<>>)
    /\ UNCHANGED <<chat, store>>

\* A timer of the list screen that is due
Due(i, kind) == i \in 1..Len(home.timers) /\ home.timers[i].kind = kind /\ home.timers[i].rem = 0

\* The 500 ms debounce timer of updateConversationsSilently fires: the sync
\* marks itself in flight and starts its pull
UpdateTimerFires(i) ==
    /\ Due(i, "update")
    /\ home' = [home EXCEPT
                  !.timers = RemoveAt(@, i),
                  !.isUpdatingConversations = TRUE,
                  !.pulls = Put(@, Pull("sync", home.timers[i].cl, Null)),
                  !.burst.pulls = IF @ < MaxPulls THEN @ + 1 ELSE @]
    /\ last' = Did("updateTimer", Null, <<>>)
    /\ UNCHANGED <<chat, sock, store>>

\* The 300 ms debounce timer of refreshTypingStatus fires: the handlers are
\* registered again and the flag is reset 1 s later
TypingTimerFires(i) ==
    /\ Due(i, "typing")
    /\ home' = [home EXCEPT
                  !.timers = Put(RemoveAt(@, i),
                                    Timer("typingReset", home.timers[i].cl, TypingReset, Zero)),
                  !.isRefreshingTyping = TRUE]
    /\ sock' = AddListeners(sock, HomeListeners(home.timers[i].cl))
    /\ last' = Did("typingTimer", Null, <<>>)
    /\ UNCHANGED <<chat, store>>

TypingResetFires(i) ==
    /\ Due(i, "typingReset")
    /\ home' = [home EXCEPT !.timers = RemoveAt(@, i), !.isRefreshingTyping = FALSE]
    /\ last' = Did("typingReset", Null, <<>>)
    /\ UNCHANGED <<chat, sock, store>>

\* The 100 ms timer of the focus effect starting its pull itself instead of
\* calling updateConversationsSilently
FocusResyncFiresPulling(i) ==
    /\ Due(i, "focusResync")
    /\ home' = [home EXCEPT
                  !.timers = RemoveAt(@, i),
                  !.isUpdatingConversations = TRUE,
                  !.pulls = Put(@, Pull("sync", home.timers[i].cl, Null))]
    /\ last' = Did("focusResyncTimer", Null, <<>>)
    /\ UNCHANGED <<chat, sock, store>>

\* The 100 ms timer of the focus effect fires
FocusResyncFires(i) ==
    /\ Due(i, "focusResync")
    /\ home' = UpdateConversationsSilently([home EXCEPT !.timers = RemoveAt(@, i)],
                                           home.timers[i].cl)
    /\ last' = Did("focusResyncTimer", Null, <<>>)
    /\ UNCHANGED <<chat, sock, store>>

\* The 500 ms timer of the focus effect fires
FocusTypingFires(i) ==
    /\ Due(i, "focusTyping")
    /\ home' = RefreshTypingStatus([home EXCEPT !.timers = RemoveAt(@, i)],
                                   home.timers[i].cl)
    /\ last' = Did("focusTypingTimer", Null, <<>>)
    /\ UNCHANGED <<chat, sock, store>>

\* The 1 s timer of the message:new handler fires: it compares the closure's
\* lastMessageUpdate with the time the handler read
MessageSyncFires(i) ==
    /\ Due(i, "msgSync")
    /\ LET t == home.timers[i]
           h1 == [home EXCEPT !.timers = RemoveAt(@, i)]
       IN home' = IF h1.closure[t.cl].lastMessageUpdate = t.now
                  THEN UpdateConversationsSilently(h1, t.cl)
                  ELSE h1
    /\ last' = Did("messageSyncTimer", Null, <<>>)
    /\ UNCHANGED <<chat, sock, store>>

\* step ms pass: no timer comes due earlier, every pending timer comes closer
Elapse(timers, step) == [i \in 1..Len(timers) |-> [timers[i] EXCEPT !.rem = @ - step]]

Tick(step) ==
    /\ home.timers # <<>> \/ chat.timers # <<>>
    /\ \A i \in 1..Len(home.timers) : home.timers[i].rem >= step
    /\ \A i \in 1..Len(chat.timers) : chat.timers[i].rem >= step
    /\ home' = [home EXCEPT !.timers = Elapse(@, step)]
    /\ chat' = [chat EXCEPT !.timers = Elapse(@, step)]
    /\ last' = Did("tick", Null, <<>>)
    /\ UNCHANGED <<sock, store>>

\* The silent sync's completion with the flag cleared in the try block
\* rather than in finally: only a successful pull clears it
SyncDoneNoFinally(i, outcome, raw) ==
    /\ i \in 1..Len(home.pulls) /\ home.pulls[i].kind = "sync"
    /\ home' = [home EXCEPT
                  !.pulls = RemoveAt(@, i),
                  !.conversations =
                      IF outcome = "ok" THEN MergeSnapshot(@, ProcessConversations(raw)) ELSE @,
                  !.isUpdatingConversations = IF outcome = "ok" THEN FALSE ELSE @]
    /\ store' = Intercept(store, outcome)
    /\ last' = Did("syncDone", outcome, <<>>)
    /\ UNCHANGED <<chat, sock>>

\* The silent sync's completion with a catch that resets the list
SyncDoneResetting(i, outcome, raw) ==
    /\ i \in 1..Len(home.pulls) /\ home.pulls[i].kind = "sync"
    /\ home' = [home EXCEPT
                  !.pulls = RemoveAt(@, i),
                  !.conversations =
                      IF outcome = "ok" THEN MergeSnapshot(@, ProcessConversations(raw)) ELSE <<>>,
                  !.isUpdatingConversations = FALSE]
    /\ store' = Intercept(store, outcome)
    /\ last' = Did("syncDone", outcome, <<>>)
    /\ UNCHANGED <<chat, sock>>

\* The pull of the silent sync returns: the merge on success, the flag cleared
\* in every case
SyncDone(i, outcome, raw) ==
    /\ i \in 1..Len(home.pulls) /\ home.pulls[i].kind = "sync"
    /\ home' = [home EXCEPT
                  !.pulls = RemoveAt(@, i),
                  !.conversations =
                      IF outcome = "ok" THEN MergeSnapshot(@, ProcessConversations(raw)) ELSE @,
                  !.isUpdatingConversations = FALSE]
    /\ store' = Intercept(store, outcome)
    /\ last' = Did("syncDone", outcome, <<>>)
    /\ UNCHANGED <<chat, sock>>

\* The pull of refreshUserStatus returns
RefreshUserStatusDone(i, outcome, raw) ==
    /\ i \in 1..Len(home.pulls) /\ home.pulls[i].kind = "presence"
    /\ home' = [home EXCEPT
                  !.pulls = RemoveAt(@, i),
                  !.conversations = IF outcome = "ok" THEN MergePresence(@, raw) ELSE @]
    /\ store' = ForceLogout(store, outcome)
    /\ last' = Did("refreshUserStatusDone", outcome, <<>>)
    /\ UNCHANGED <<chat, sock>>

\* The completion of checkAndAddNewConversation without its fallback: a
\* response that lacks the conversation starts nothing
CheckAddDoneNoFallback(i, outcome, raw) ==
    /\ i \in 1..Len(home.pulls) /\ home.pulls[i].kind = "checkAdd"
    /\ LET p == home.pulls[i]
           h1 == [home EXCEPT !.pulls = RemoveAt(@, i)]
       IN home' =
            IF outcome = "ok" /\ HasConversation(raw, p.conv)
            THEN [h1 EXCEPT !.conversations =
                    AddNewConversation(@, ProcessConversation(FindConversation(raw, p.conv)))]
            ELSE h1
    /\ store' = Intercept(store, outcome)
    /\ last' = Did("checkAddDone", outcome, <<>>)
    /\ UNCHANGED <<chat, sock>>

\* The pull of checkAndAddNewConversation returns
CheckAddDone(i, outcome, raw) ==
    /\ i \in 1..Len(home.pulls) /\ home.pulls[i].kind = "checkAdd"
    /\ LET p == home.pulls[i]
           h1 == [home EXCEPT !.pulls = RemoveAt(@, i)]
       IN home' =
            IF outcome # "ok" THEN h1
            ELSE IF HasConversation(raw, p.conv)
            THEN [h1 EXCEPT !.conversations =
                    AddNewConversation(@, ProcessConversation(FindConversation(raw, p.conv)))]
            ELSE UpdateConversationsSilently(h1, p.cl)
    /\ store' = Intercept(store, outcome)
    /\ last' = Did("checkAddDone", outcome, <<>>)
    /\ UNCHANGED <<chat, sock>>

----------------------------------------------------------------------------
(* The chat screen: operations *)

\* The mount effect: loadUserData, loadMessages and loadOtherUserStatus start,
\* setupSocketListeners registers the handlers with the first render's
\* state, the 10 s status interval starts; the screen is focused
ChatMount ==
    /\ ~chat.mounted
    /\ chat' = [ChatInit EXCEPT
                  !.mounted = TRUE, !.focused = TRUE, !.effectDue = TRUE,
                  !.statusInterval = TRUE,
                  !.pulls = << Pull("user", "mount", OpenConversation),
                               Pull("messages", "mount", OpenConversation),
                               Pull("status", "mount", OpenConversation) >>]
    /\ sock' = AddListeners(sock, ChatListeners("mount"))
    /\ last' = Did("chatMount", Null, <<>>)
    /\ UNCHANGED <<home, store>>

\* loadUserData after its await: the stored user, if there is one
ChatUserLoaded(i) ==
    /\ i \in 1..Len(chat.pulls) /\ chat.pulls[i].kind = "user"
    /\ LET c1 == [chat EXCEPT !.pulls = RemoveAt(@, i)]
       IN chat' = ChatRendered(c1, IF store.authToken
                                   THEN [c1 EXCEPT !.currentUser = Me] ELSE c1)
    /\ last' = Did("chatUserLoaded", Null, <<>>)
    /\ UNCHANGED <<home, sock, store>>

\* loadMessages after its await: the response replaces the list; its own
\* currentUser is the first render's null, so it marks nothing as read
ChatLoadMessagesDone(i, outcome, msgs) ==
    /\ i \in 1..Len(chat.pulls) /\ chat.pulls[i].kind = "messages"
    /\ LET c1 == [chat EXCEPT !.pulls = RemoveAt(@, i)]
       IN chat' = ChatRendered(c1, IF outcome = "ok"
                                   THEN [c1 EXCEPT !.messages = msgs] ELSE c1)
    /\ store' = ForceLogout(store, outcome)
    /\ last' = Did("chatLoadMessagesDone", outcome, <<>>)
    /\ UNCHANGED <<home, sock>>

\* loadOtherUserStatus after its awaits
ChatStatusDone(i, outcome, online) ==
    /\ i \in 1..Len(chat.pulls) /\ chat.pulls[i].kind = "status"
    /\ chat' = [chat EXCEPT
                  !.pulls = RemoveAt(@, i),
                  !.otherUserOnline = IF outcome = "ok" THEN online ELSE @]
    /\ last' = Did("chatStatusDone", outcome, <<>>)
    /\ UNCHANGED <<home, sock, store>>

\* The focus callback, memoised on [currentUser, messages, conversationId]: it
\* runs with the current render's state.  markMessagesAsRead emits
\* message:read and marks every message of the other user as read;
\* notifyConversationListUnreadCleared emits conversation_opened.
ChatFocusEffect ==
    /\ chat.mounted /\ chat.focused /\ chat.effectDue
    /\ CountKind(chat.pulls, "status") < MaxPulls
    /\ LET user == chat.currentUser
           marks == /\ user # NoUser /\ chat.messages # <<>>
                    /\ UnreadFromOther(chat.messages, user)
           notifies == user # NoUser /\ (marks \/ chat.messages = <<>>)
           c0 == [chat EXCEPT
                    !.effectDue = FALSE,
                    !.pulls = Put(@, Pull("status", "focus", OpenConversation))]
           c1 == IF marks
                 THEN [c0 EXCEPT !.messages = MarkMessagesAsRead(@, user)]
                 ELSE c0
       IN /\ chat' = ChatRendered(c0, c1)
          /\ last' = Did("chatFocusEffect", marks,
                         (IF marks THEN Emit(sock, "message:read") ELSE <<>>)
                         \o (IF notifies THEN Emit(sock, "conversation_opened") ELSE <<>>))
    /\ UNCHANGED <<home, sock, store>>

\* The 10 s interval of the chat screen's mount effect: loadOtherUserStatus
ChatStatusInterval ==
    /\ chat.statusInterval
    /\ CountKind(chat.pulls, "status") < MaxPulls
    /\ chat' = [chat EXCEPT !.pulls = Put(@, Pull("status", "mount", OpenConversation))]
    /\ last' = Did("chatStatusInterval", Null, <<>>)
    /\ UNCHANGED <<home, sock, store>>

\* The texts of the input field, one of them blank
ChatTexts == {"", " ", "b"}

\* String.prototype.trim over ChatTexts
Trim(text) == IF text = " " THEN "" ELSE text

\* clearTimeout(typingTimeout): the state holds the id of the timer set last,
\* which of the pending typing-stop timers is one with the most time left
ClearTypingTimeout(timers) ==
    LET Stops == {i \in 1..Len(timers) : timers[i].kind = "typingStop"}
    IN IF Stops = {} THEN timers
       ELSE RemoveAt(timers, CHOOSE i \in Stops :
                                 \A j \in Stops : timers[j].rem <= timers[i].rem)

\* handleTyping without its clearTimeout: every keystroke adds a timer
HandleTypingStacking(text) ==
    /\ chat.mounted
    /\ LET typing == chat.currentUser # NoUser
           c1 == [chat EXCEPT !.newMessage = text]
       IN /\ chat' = IF typing
                      THEN [c1 EXCEPT
                              !.timers = Put(@, Timer("typingStop", "mount", TypingStop, Zero)),
                              !.typingTimeout = TRUE]
                      ELSE c1
          /\ last' = Did("handleTyping",
                         [text |-> text, pending |-> CountKind(chat.timers, "typingStop")],
                         IF typing THEN Emit(sock, "typing:start") ELSE <<>>)
    /\ UNCHANGED <<home, sock, store>>

\* handleTyping, as the current render defines it: with a user, typing:start
\* goes out, the timer the state holds is cleared and a new one is set
HandleTyping(text) ==
    /\ chat.mounted
    /\ LET typing == chat.currentUser # NoUser
           c1 == [chat EXCEPT !.newMessage = text]
       IN /\ chat' = IF typing
                      THEN [c1 EXCEPT
                              !.timers = Put(IF chat.typingTimeout
                                             THEN ClearTypingTimeout(@) ELSE @,
                                             Timer("typingStop", "mount", TypingStop, Zero)),
                              !.typingTimeout = TRUE]
                      ELSE c1
          /\ last' = Did("handleTyping",
                         [text |-> text, pending |-> CountKind(chat.timers, "typingStop")],
                         IF typing THEN Emit(sock, "typing:start") ELSE <<>>)
    /\ UNCHANGED <<home, sock, store>>

\* The typing-stop timer fires: stopTyping and setTypingTimeout(null), whether
\* or not the screen is still mounted
TypingStopFires(i) ==
    /\ i \in 1..Len(chat.timers)
    /\ chat.timers[i].kind = "typingStop" /\ chat.timers[i].rem = 0
    /\ chat' = [chat EXCEPT !.timers = RemoveAt(@, i), !.typingTimeout = FALSE]
    /\ last' = Did("typingStopTimer", Null, Emit(sock, "typing:stop"))
    /\ UNCHANGED <<home, sock, store>>

\* handleSendMessage with a valid conversation id; it returns at once on a
\* blank text or without a user.  The message goes to the socket, the input is
\* cleared, typing:stop goes out and the typing-stop timer is cleared; the
\* message list is not touched.
HandleSendMessage ==
    /\ chat.mounted
    /\ Trim(chat.newMessage) # "" /\ chat.currentUser # NoUser
    /\ chat' = [chat EXCEPT
                  !.newMessage = "",
                  !.timers = IF chat.typingTimeout THEN ClearTypingTimeout(@) ELSE @,
                  !.typingTimeout = FALSE]
    /\ last' = Did("handleSendMessage", Trim(chat.newMessage),
                   Emit(sock, "message:send") \o Emit(sock, "typing:stop"))
    /\ UNCHANGED <<home, sock, store>>

\* The cleanup of the chat screen's mount effect: removeAllListeners() and
\* clearInterval(statusInterval).  Timers and pulls of the screen stay.
ChatUnmount ==
    /\ chat.mounted
    /\ chat' = [chat EXCEPT
                  !.mounted = FALSE, !.focused = FALSE, !.effectDue = FALSE,
                  !.statusInterval = FALSE]
    /\ sock' = RemoveAllListeners(sock)
    /\ last' = Did("chatUnmount", Null, <<>>)
    /\ UNCHANGED <<home, store>>

----------------------------------------------------------------------------
(* Inbound events: every handler registered for the event runs *)

Listened(event) ==
    \E i \in 1..Len(sock.handlers) :
        /\ sock.handlers[i].owner \in {"home", "chat"}
        /\ \E fn \in sock.handlers[i].fns : EventOf(fn) = event

Receive(event, d, now) ==
    /\ sock.socket /\ sock.link = "up" /\ Listened(event)
    /\ home' = HomeDispatch(home, sock.handlers, event, d, now)
    /\ chat' = ChatRendered(chat, ChatDispatch(chat, sock.handlers, event, d))
    /\ last' = Noted(event, d, <<>>,
                     event = "message:new" /\ MessageKey(d) \in home.processedMessageKeys)
    /\ UNCHANGED <<sock, store>>

\* message:new; the guards bound the unread counts, the pulls and the timers
ReceiveNewMessage(m, now) ==
    /\ \/ MessageKey(m) \in home.processedMessageKeys
       \/ /\ \A i \in 1..Len(home.conversations) :
                home.conversations[i].unread_count < MaxCount
          /\ CountKind(home.pulls, "checkAdd") < MaxChecks
          /\ CountKind(home.timers, "msgSync") < MaxMsgTimers
    /\ Receive("message:new", m, now)

ReceiveMessageRead(d) == Receive("message:read", d, Zero)
ReceiveConversationOpened(d) == Receive("conversation_opened", d, Zero)
ReceiveConversationsUpdated(d) ==
    /\ CountKind(home.pulls, "sync") < MaxPulls
    /\ Receive("conversations_updated", d, Zero)
ReceiveUserStatusChange(d) == Receive("user_status_change", d, Zero)
ReceiveUserTypingStatus(d) == Receive("user_typing_status", d, Zero)
ReceiveTypingStart(d) == Receive("typing:start", d, Zero)
ReceiveTypingStop(d) == Receive("typing:stop", d, Zero)
ReceiveMessageDelivered(d) == Receive("message:delivered", d, Zero)

----------------------------------------------------------------------------
(* Inputs *)

Message(id, conv, sender, at, content, delivered, status) ==
    [id |-> id, conversationId |-> conv, sender_id |-> sender, created_at |-> at,
     content |-> content, is_delivered |-> delivered, is_read |-> FALSE,
     deliveryStatus |-> status]

RawConversation(id, online, seen, content, at, sender, unread) ==
    [conversation_id |-> id,
     other_user_id |-> OtherUserOf(id),
     other_user_online |-> online,
     other_user_last_seen |-> seen,
     last_message |-> content,
     last_message_time |-> at,
     last_message_sender_id |-> sender,
     unread_count |-> unread]

RawUnreadCounts ==
    {RawNum(n) : n \in 0..MaxUnread} \cup {RawStr(<<1>>), RawStr(<<2, -1>>), RawStr(<<-1>>), RawNull}

\* Snapshots: lists of pulled conversations with distinct ids
SnapshotsOver(as, bs) ==
    {<<>>} \cup {<<a>> : a \in as} \cup {<<b>> : b \in bs}
           \cup {<<a, b>> : a \in as, b \in bs} \cup {<<b, a>> : a \in as, b \in bs}

Outcomes == {"ok", "fail", "error", "unauthorized"}

----------------------------------------------------------------------------
(* The conversation list under message events, acknowledgments and syncs *)

ListMessages ==
    { Message("101", ConvA, Other, "t1", "a", FALSE, "sent"),
      Message("102", ConvA, Me, "t2", "b", FALSE, "sent"),
      Message("103", ConvB, Third, "t1", "a", FALSE, "sent") }

ListRawA == RawConversation(ConvA, TRUE, "s1", "a", "t1", Other, RawStr(<<1>>))
ListRawB == RawConversation(ConvB, TRUE, "s1", "a", "t1", Third, RawNum(0))

ListSnapshots == {<<ListRawA>>, <<ListRawB, ListRawA>>}

ListClock == {"now1"}

ListOutcomes == {"ok", "fail", "error"}

Acknowledgments == [conversationId : ConvIds, userId : {Me, Other}, messageIds : {{}}]

\* The closures of a list screen whose mount effect has run
ReadyClosures ==
    LET h0 == RenderEnv(HomeInit)
    IN [mount |-> h0, focus |-> [h0 EXCEPT !.currentUser = Me]]

\* The list screen at rest after its mount: the first load has returned and
\* the mount effect has registered its handlers, the typing re-subscription
\* of the first focus has registered the focus callback's (before or after
\* the mount effect's, as the load took), the first syncs are over, no timer
\* is pending and no pull is in flight
ReadyHome(convs) ==
    [HomeInit EXCEPT
        !.phase = "ready",
        !.intervals = TRUE,
        !.currentUser = Me,
        !.conversations = convs,
        !.closure = ReadyClosures]

ReadyHandlers ==
    { AdapterListeners \o HomeListeners("mount") \o HomeListeners("focus"),
      AdapterListeners \o HomeListeners("focus") \o HomeListeners("mount") }

ReadySock(handlers) ==
    [SockInit EXCEPT
        !.socket = TRUE, !.isConnected = TRUE, !.heartbeatInterval = TRUE,
        !.link = "up", !.everUp = TRUE, !.authed = TRUE, !.cycleAuths = 1,
        !.handlers = handlers]

InitList ==
    /\ home = ReadyHome(ProcessConversations(<<ListRawA>>))
    /\ \E hs \in ReadyHandlers : sock = ReadySock(hs)
    /\ chat = ChatInit
    /\ store = StoreInit
    /\ last = Did("init", Null, <<>>)

NextList ==
    \/ \E i \in 1..Len(home.timers) : UpdateTimerFires(i)
    \/ \E i \in 1..Len(home.timers) : MessageSyncFires(i)
    \/ Tick(UpdateDebounce)
    \/ \E i \in 1..Len(home.pulls), o \in ListOutcomes, raw \in ListSnapshots :
            SyncDone(i, o, raw)
    \/ \E i \in 1..Len(home.pulls), o \in ListOutcomes, raw \in ListSnapshots :
            CheckAddDone(i, o, raw)
    \/ \E m \in ListMessages, now \in ListClock : ReceiveNewMessage(m, now)
    \/ \E d \in Acknowledgments : ReceiveMessageRead(d)
    \/ \E d \in Acknowledgments : ReceiveConversationOpened(d)

SpecList == InitList /\ [][NextList]_vars

\* The silent sync's merge on its own: the list holds one or two conversations
\* whose last message and unread count events and earlier pulls have set, the
\* sync's pull is in flight, and it returns any snapshot of the domain
MergeRawA ==
    { RawConversation(ConvA, TRUE, "s1", content, at, sender, unread) :
        content \in Contents, at \in Times, sender \in {Me, Other},
        unread \in RawUnreadCounts }

MergeRawB == { RawConversation(ConvB, FALSE, "s1", "a", "t1", Third, RawNum(1)) }

MergeSnapshots == SnapshotsOver(MergeRawA, MergeRawB)

\* A conversation as the list holds it: a processed one whose unread count
\* message events have raised, at most one above what a snapshot carries
LocalConversation(raw, unread) ==
    [ProcessConversation(raw) EXCEPT !.unread_count = unread]

MergeLocals ==
    LET as == { LocalConversation(RawConversation(ConvA, TRUE, "s1", content, at, sender, RawNull),
                                  unread) :
                  content \in Contents, at \in Times, sender \in {Me, Other},
                  unread \in 0..(MaxUnread + 1) }
        bs == { LocalConversation(r, MaxUnread + 1) : r \in MergeRawB }
    IN {<<a>> : a \in as} \cup {<<a, b>> : a \in as, b \in bs}

InitMerge ==
    /\ \E convs \in MergeLocals :
          home = [ReadyHome(convs) EXCEPT
                    !.isUpdatingConversations = TRUE,
                    !.pulls = <<Pull("sync", "focus", Null)>>]
    /\ \E hs \in ReadyHandlers : sock = ReadySock(hs)
    /\ chat = ChatInit
    /\ store = StoreInit
    /\ last = Did("init", Null, <<>>)

NextMerge ==
    \E i \in 1..Len(home.pulls), o \in ListOutcomes, raw \in MergeSnapshots :
        SyncDone(i, o, raw)

SpecMerge == InitMerge /\ [][NextMerge]_vars

\* The chat screen opened from the list: the list screen is blurred, and the
\* teardown of a chat screen closed just before has removed every handler
\* from the socket, so the chat screen's own handlers are the only ones
ChatMessages ==
    { Message("101", ConvA, Other, "t1", "a", FALSE, "sent"),
      Message("102", ConvA, Me, "t2", "b", FALSE, "sent"),
      Message("102", ConvA, Me, "t2", "b", FALSE, "delivered"),
      Message("103", ConvB, Third, "t1", "a", FALSE, "sent") }

\* What the server holds of the open conversation
ChatHistories ==
    { <<>>,
      << Message("101", ConvA, Other, "t1", "a", TRUE, "delivered") >> }

ChatDeliveries == [conversationId : ConvIds, messageId : {"101", "102"}]

ChatReads ==
    [conversationId : {ConvA}, userId : {Other}, messageIds : {{}, {"102"}, {"101", "102"}}]
    \cup [conversationId : {ConvB}, userId : {Third}, messageIds : {{"102"}}]

StatusChanges == [userId : {Other, Third}, isOnline : BOOLEAN]

InitChat ==
    /\ home = [ReadyHome(ProcessConversations(<<ListRawA>>)) EXCEPT !.focused = FALSE]
    /\ sock = ReadySock(<<>>)
    /\ chat = ChatInit
    /\ store = StoreInit
    /\ last = Did("init", Null, <<>>)

NextChat ==
    \/ ChatMount
    \/ \E i \in 1..Len(chat.pulls) : ChatUserLoaded(i)
    \/ \E i \in 1..Len(chat.pulls), o \in Outcomes, msgs \in ChatHistories :
            ChatLoadMessagesDone(i, o, msgs)
    \/ \E i \in 1..Len(chat.pulls), o \in {"ok", "error"}, online \in BOOLEAN :
            ChatStatusDone(i, o, online)
    \/ ChatFocusEffect
    \/ \E m \in ChatMessages, now \in ListClock : ReceiveNewMessage(m, now)
    \/ \E d \in ChatDeliveries : ReceiveMessageDelivered(d)
    \/ \E d \in ChatReads : ReceiveMessageRead(d)
    \/ \E d \in StatusChanges : ReceiveUserStatusChange(d)

SpecChat == InitChat /\ [][NextChat]_vars

\* The refresh scheduling of the list screen at rest after its mount: the two
\* intervals, focus and blur, every timer they start, the pulls
SchedSnapshots == { <<ListRawA>> }

SchedOutcomes == {"ok", "fail", "error"}

InitSched ==
    /\ home = ReadyHome(ProcessConversations(<<ListRawA>>))
    /\ \E hs \in ReadyHandlers : sock = ReadySock(hs)
    /\ chat = ChatInit
    /\ store = StoreInit
    /\ last = Did("init", Null, <<>>)

NextSched ==
    \/ StatusInterval
    \/ ConversationInterval
    \/ FocusHome
    \/ BlurHome
    \/ \E i \in 1..Len(home.timers) : UpdateTimerFires(i)
    \/ \E i \in 1..Len(home.timers) : TypingTimerFires(i)
    \/ \E i \in 1..Len(home.timers) : TypingResetFires(i)
    \/ \E i \in 1..Len(home.timers) : FocusResyncFires(i)
    \/ \E i \in 1..Len(home.timers) : FocusTypingFires(i)
    \/ Tick(FocusResync)
    \/ \E i \in 1..Len(home.pulls), o \in SchedOutcomes, raw \in SchedSnapshots :
            SyncDone(i, o, raw)
    \/ \E i \in 1..Len(home.pulls), o \in {"ok", "error"}, raw \in SchedSnapshots :
            RefreshUserStatusDone(i, o, raw)

SpecSched == InitSched /\ [][NextSched]_vars

\* The API client gives up a request after 10 s, so the pull of a sync that
\* has started returns or throws
FairSched ==
    SpecSched /\ WF_vars(\E i \in 1..Len(home.pulls), o \in SchedOutcomes,
                            raw \in SchedSnapshots : SyncDone(i, o, raw))

----------------------------------------------------------------------------
(* The conversations of the list under snapshot merges, message events,
   insertions of new conversations and presence events *)

RosterMessages ==
    { Message("103", ConvB, Third, "t1", "a", FALSE, "sent") }

InitRoster ==
    /\ home = ReadyHome(ProcessConversations(<<ListRawA>>))
    /\ \E hs \in ReadyHandlers : sock = ReadySock(hs)
    /\ chat = ChatInit
    /\ store = StoreInit
    /\ last = Did("init", Null, <<>>)

NextRoster ==
    \/ ConversationInterval
    \/ \E i \in 1..Len(home.timers) : UpdateTimerFires(i)
    \/ \E i \in 1..Len(home.timers) : MessageSyncFires(i)
    \/ Tick(UpdateDebounce)
    \/ \E i \in 1..Len(home.pulls), o \in {"ok", "error"}, raw \in ListSnapshots :
            SyncDone(i, o, raw)
    \/ \E i \in 1..Len(home.pulls), o \in {"ok", "error"}, raw \in ListSnapshots :
            CheckAddDone(i, o, raw)
    \/ \E m \in RosterMessages, now \in ListClock : ReceiveNewMessage(m, now)
    \/ \E d \in StatusChanges : ReceiveUserStatusChange(d)

SpecRoster == InitRoster /\ [][NextRoster]_vars

----------------------------------------------------------------------------
(* The chat screen's input field: keystrokes, sends, the typing-stop timer, the
   status interval and the screen's teardown.  The screen has just mounted;
   its stored user is still being read.  The socket holds the adapter's and
   the list screen's handlers, or none of them when an earlier chat screen's
   teardown has removed them. *)

InitCompose ==
    /\ home = [ReadyHome(ProcessConversations(<<ListRawA>>)) EXCEPT !.focused = FALSE]
    /\ \E hs \in ReadyHandlers \cup {<<>>} :
          sock = AddListeners(ReadySock(hs), ChatListeners("mount"))
    /\ chat = [ChatInit EXCEPT
                 !.mounted = TRUE, !.focused = TRUE, !.statusInterval = TRUE,
                 !.pulls = <<Pull("user", "mount", OpenConversation)>>]
    /\ store = StoreInit
    /\ last = Did("init", Null, <<>>)

NextCompose ==
    \/ \E i \in 1..Len(chat.pulls) : ChatUserLoaded(i)
    \/ \E text \in ChatTexts : HandleTyping(text)
    \/ \E i \in 1..Len(chat.timers) : TypingStopFires(i)
    \/ HandleSendMessage
    \/ Tick(TypingStop \div 2)
    \/ ChatStatusInterval
    \/ \E i \in 1..Len(chat.pulls), o \in {"ok", "error"}, online \in BOOLEAN :
            ChatStatusDone(i, o, online)
    \/ ChatUnmount

SpecCompose == InitCompose /\ [][NextCompose]_vars

----------------------------------------------------------------------------
(* Read and opened acknowledgments at the list screen while it loses focus
   and its 30 s interval registers the handlers again *)

InitAck ==
    /\ home = ReadyHome(ProcessConversations(<<ListRawB, ListRawA>>))
    /\ \E hs \in ReadyHandlers : sock = ReadySock(hs)
    /\ chat = ChatInit
    /\ store = StoreInit
    /\ last = Did("init", Null, <<>>)

NextAck ==
    \/ BlurHome
    \/ StatusInterval
    \/ \E i \in 1..Len(home.timers) : TypingTimerFires(i)
    \/ \E i \in 1..Len(home.timers) : TypingResetFires(i)
    \/ Tick(FocusResync)
    \/ \E i \in 1..Len(home.pulls) : RefreshUserStatusDone(i, "ok", <<ListRawB, ListRawA>>)
    \/ \E d \in Acknowledgments : ReceiveMessageRead(d)
    \/ \E d \in Acknowledgments : ReceiveConversationOpened(d)

SpecAck == InitAck /\ [][NextAck]_vars

----------------------------------------------------------------------------
(* The timers of the list screen across its teardown: the screen has just
   gained focus, and the timers of the focus callback are pending *)

InitTeardown ==
    /\ home = FocusCallback(ReadyHome(ProcessConversations(<<ListRawA>>)))
    /\ \E hs \in ReadyHandlers : sock = ReadySock(hs)
    /\ chat = ChatInit
    /\ store = StoreInit
    /\ last = Did("init", Null, <<>>)

NextTeardown ==
    \/ HomeUnmount
    \/ ConversationInterval
    \/ \E i \in 1..Len(home.timers) : UpdateTimerFires(i)
    \/ \E i \in 1..Len(home.timers) : TypingTimerFires(i)
    \/ \E i \in 1..Len(home.timers) : TypingResetFires(i)
    \/ \E i \in 1..Len(home.timers) : FocusResyncFires(i)
    \/ \E i \in 1..Len(home.timers) : FocusTypingFires(i)
    \/ Tick(FocusResync)
    \/ \E i \in 1..Len(home.pulls) : SyncDone(i, "ok", <<ListRawA>>)

SpecTeardown == InitTeardown /\ [][NextTeardown]_vars

----------------------------------------------------------------------------
(* Pull to refresh over the lists the screen can hold and the snapshots the
   server can answer with *)

InitLoad ==
    /\ \E convs \in MergeLocals : home = ReadyHome(convs)
    /\ \E hs \in ReadyHandlers : sock = ReadySock(hs)
    /\ chat = ChatInit
    /\ store = StoreInit
    /\ last = Did("init", Null, <<>>)

NextLoad ==
    \/ OnRefresh
    \/ \E i \in 1..Len(home.pulls), o \in ListOutcomes, raw \in MergeSnapshots :
            LoadConversationsDone(i, o, raw)

SpecLoad == InitLoad /\ [][NextLoad]_vars

----------------------------------------------------------------------------
(* The typing state of the list screen under typing events and silent syncs *)

\* A response may carry other_user_typing (the Conversation type declares it
\* optional); the one that carries it differs in its last message
TypingRawA ==
    { ListRawA,
      RawConversation(ConvA, TRUE, "s1", "b", "t2", Other, RawStr(<<1>>))
        @@ [other_user_typing |-> TRUE] }

TypingSnapshots == SnapshotsOver(TypingRawA, {ListRawB})

TypingEvents == [conversationId : {ConvA}, userId : {Me, Other}]

TypingStatuses == [conversationId : {ConvA}, userId : {Me, Other}, isTyping : BOOLEAN]

InitTyping ==
    /\ \E raw \in TypingSnapshots \ {<<>>} : home = ReadyHome(ProcessConversations(raw))
    /\ \E hs \in ReadyHandlers : sock = ReadySock(hs)
    /\ chat = ChatInit
    /\ store = StoreInit
    /\ last = Did("init", Null, <<>>)

NextTyping ==
    \/ ConversationInterval
    \/ \E i \in 1..Len(home.timers) : UpdateTimerFires(i)
    \/ Tick(UpdateDebounce)
    \/ \E i \in 1..Len(home.pulls), o \in {"ok", "error"}, raw \in TypingSnapshots :
            SyncDone(i, o, raw)
    \/ \E d \in TypingEvents : ReceiveTypingStart(d)
    \/ \E d \in TypingEvents : ReceiveTypingStop(d)
    \/ \E d \in TypingStatuses : ReceiveUserTypingStatus(d)

SpecTyping == InitTyping /\ [][NextTyping]_vars

----------------------------------------------------------------------------
(* The presence refresh over the lists the screen can hold and the snapshots
   the server can answer with *)

\* What a snapshot says of a conversation differs from the list in every
\* field; its last-seen time may be empty
PresenceRawA ==
    { RawConversation(ConvA, online, seen, "b", "t2", Me, RawNum(0)) :
        online \in BOOLEAN, seen \in {"", "s2"} }

PresenceRawB == { RawConversation(ConvB, TRUE, "s2", "b", "t2", Me, RawNum(0)) }

PresenceSnapshots == SnapshotsOver(PresenceRawA, PresenceRawB)

InitPresence ==
    /\ \E convs \in MergeLocals :
          home = [ReadyHome(convs) EXCEPT !.pulls = <<Pull("presence", "mount", Null)>>]
    /\ \E hs \in ReadyHandlers : sock = ReadySock(hs \o HomeListeners("mount"))
    /\ chat = ChatInit
    /\ store = StoreInit
    /\ last = Did("init", Null, <<>>)

NextPresence ==
    \E i \in 1..Len(home.pulls), o \in Outcomes, raw \in PresenceSnapshots :
        RefreshUserStatusDone(i, o, raw)

SpecPresence == InitPresence /\ [][NextPresence]_vars

----------------------------------------------------------------------------
(* The pulls of the list screen and their outcomes: pull to refresh (the
   first load's function), the presence refresh and the silent sync, each
   returning success, success = false, an error or a 401 *)

PullSnapshots == { <<ListRawB, ListRawA>> }

\* The list screen some seconds after its 30 s interval fired: the typing
\* re-subscription it started is over (the mount closure's handlers are
\* registered once more), the pull of refreshUserStatus is still in flight;
\* the other user is typing
InitPulls ==
    /\ home = [ReadyHome(ProcessConversations(<<ListRawA>>)) EXCEPT
                 !.typingUsers = {Other},
                 !.pulls = <<Pull("presence", "mount", Null)>>]
    /\ \E hs \in ReadyHandlers : sock = ReadySock(hs \o HomeListeners("mount"))
    /\ chat = ChatInit
    /\ store = StoreInit
    /\ last = Did("init", Null, <<>>)

NextPulls ==
    \/ ConversationInterval
    \/ OnRefresh
    \/ \E i \in 1..Len(home.timers) : UpdateTimerFires(i)
    \/ Tick(UpdateDebounce)
    \/ \E i \in 1..Len(home.pulls), o \in Outcomes, raw \in PullSnapshots :
            SyncDone(i, o, raw)
    \/ \E i \in 1..Len(home.pulls), o \in Outcomes, raw \in PullSnapshots :
            RefreshUserStatusDone(i, o, raw)
    \/ \E i \in 1..Len(home.pulls), o \in Outcomes, raw \in PullSnapshots :
            LoadConversationsDone(i, o, raw)

SpecPulls == InitPulls /\ [][NextPulls]_vars

InitSock ==
    /\ home = HomeInit
    /\ chat = ChatInit
    /\ sock = SockInit
    /\ store = StoreInit
    /\ last = Did("init", Null, <<>>)

NextSock ==
    \/ Connect
    \/ OnConnect
    \/ OnReconnect
    \/ OnAuthenticated
    \/ OnAuthenticationError
    \/ OnConnectError
    \/ OnDisconnect
    \/ Heartbeat
    \/ \E op \in SendOps : Send(op)
    \/ ScreenRemovesAllListeners
    \/ HandleLogout

SpecSock == InitSock /\ [][NextSock]_vars

----------------------------------------------------------------------------
\* The unread counts of the list, in list order
UnreadCounts(h) == [i \in 1..Len(h.conversations) |-> h.conversations[i].unread_count]

\* The unread count the list shows for a conversation, -1 when it is not listed
UnreadOf(h, conv) ==
    IF HasConversation(h.conversations, conv)
    THEN FindConversation(h.conversations, conv).unread_count
    ELSE -1

(* C1: a message:new event whose key (id, conversationId, sender_id, created_at,
   content) was applied before leaves the list screen exactly as it was, and
   the first application of a message of another user raises the unread count
   of its conversation by exactly 1, and of no other conversation, however
   many handlers are registered. *)
DuplicateMessageChangesNothing ==
    [][ /\ (last'.op = "message:new" /\ last'.dup) => home' = home
        /\ (last'.op = "message:new" /\ ~last'.dup) =>
              /\ Len(home'.conversations) = Len(home.conversations)
              /\ \A i \in 1..Len(home.conversations) :
                    LET before == home.conversations[i].unread_count
                        after == home'.conversations[i].unread_count
                    IN IF home.conversations[i].conversation_id # last'.payload.conversationId
                       THEN after = before
                       ELSE IF last'.payload.sender_id # Me
                       THEN after = before + 1
                       ELSE after \in {before, before + 1} ]_vars

\* A message of the other user has arrived a second time while two sets of
\* handlers are registered and its conversation shows unread messages
DuplicateMessageArrived ==
    /\ last.op = "message:new" /\ last.dup
    /\ last.payload.sender_id = Other
    /\ CountHandlers(sock, "home", "onNewMessage") = 2
    /\ UnreadOf(home, last.payload.conversationId) > 0

\* The unread count the merge rule gives a conversation held as loc and pulled
\* as inc: the local one when the last message is the same and it is larger
MergedUnread(loc, inc) ==
    IF /\ loc.last_message_time = inc.last_message_time
       /\ loc.last_message = inc.last_message
       /\ loc.last_message_sender_id = inc.last_message_sender_id
       /\ loc.unread_count > ProcessUnreadCount(inc.unread_count)
    THEN loc.unread_count
    ELSE ProcessUnreadCount(inc.unread_count)

SameLastMessage(loc, inc) ==
    /\ loc.last_message_time = inc.last_message_time
    /\ loc.last_message = inc.last_message
    /\ loc.last_message_sender_id = inc.last_message_sender_id

(* C2: when the silent sync's pull succeeds, every conversation that is both
   in the list and in the snapshot gets the local unread count if the last
   message's time, content and sender are the same on both sides and the
   local count is the larger one, and the snapshot's count otherwise; so the
   count is never lowered while the three fields match. *)
SilentSyncMergeRule ==
    [][ \A raw \in MergeSnapshots, p \in 1..Len(home.pulls) :
          SyncDone(p, "ok", raw) =>
            /\ Len(home'.conversations) = Len(raw)
            /\ \A j \in 1..Len(raw) :
                  HasConversation(home.conversations, raw[j].conversation_id) =>
                    LET loc == FindConversation(home.conversations, raw[j].conversation_id)
                    IN /\ home'.conversations[j].unread_count = MergedUnread(loc, raw[j])
                       /\ SameLastMessage(loc, raw[j]) =>
                             home'.conversations[j].unread_count >= loc.unread_count ]_vars

\* A successful sync has left a list in which a conversation shows more unread
\* messages than any snapshot carries: its local count was kept
LocalCountKept ==
    /\ last.op = "syncDone" /\ last.payload = "ok"
    /\ \E i \in 1..Len(home.conversations) :
          /\ home.conversations[i].conversation_id = ConvA
          /\ home.conversations[i].unread_count = MaxUnread + 1

(* C3: a message:read or conversation_opened event whose userId is not the
   local user's id leaves every unread count of the list unchanged. *)
ForeignReadChangesNoUnread ==
    [][ (/\ last'.op \in {"message:read", "conversation_opened"}
         /\ last'.payload.userId # home.currentUser)
        => UnreadCounts(home') = UnreadCounts(home) ]_vars

\* A read event of the other user has arrived while its conversation shows
\* unread messages and handlers of both closures are registered
ForeignReadArrived ==
    /\ last.op = "message:read"
    /\ last.payload.userId = Other
    /\ UnreadOf(home, last.payload.conversationId) > 0
    /\ CountHandlers(sock, "home", "onMessageRead") = 2

\* What getTickStatus shows for a message: 2 read, 1 delivered, 0 sent
TickStatus(msg) == IF msg.is_read THEN 2 ELSE IF msg.is_delivered THEN 1 ELSE 0

\* The message of the chat screen's list with the id, if it holds one
HeldMessage(msgs, id) == msgs[CHOOSE i \in 1..Len(msgs) : msgs[i].id = id]

(* C4: a message:new, message:delivered, message:read or user_status_change
   event and the chat screen's own mark-as-read keep every message of the
   chat screen's list, never turn its is_delivered or its is_read from true
   to false, and never lower the state its ticks show. *)
DeliveryStateNeverRegresses ==
    [][ last'.op \in {"message:new", "message:delivered", "message:read",
                      "user_status_change", "chatFocusEffect"}
        => \A i \in 1..Len(chat.messages) :
              /\ HasMessage(chat'.messages, chat.messages[i].id)
              /\ LET after == HeldMessage(chat'.messages, chat.messages[i].id)
                 IN /\ chat.messages[i].is_delivered => after.is_delivered
                    /\ chat.messages[i].is_read => after.is_read
                    /\ TickStatus(after) >= TickStatus(chat.messages[i]) ]_vars

\* A message:new event that reports a message as merely sent has arrived for
\* a message the chat screen holds as delivered and read
StaleCopyArrived ==
    /\ last.op = "message:new"
    /\ last.payload.deliveryStatus = "sent" /\ ~last.payload.is_delivered
    /\ HasMessage(chat.messages, last.payload.id)
    /\ HeldMessage(chat.messages, last.payload.id).is_delivered
    /\ HeldMessage(chat.messages, last.payload.id).is_read

(* C5: every message of the chat screen's list that is read is delivered. *)
ReadImpliesDelivered ==
    \A i \in 1..Len(chat.messages) :
        chat.messages[i].is_read => chat.messages[i].is_delivered

SyncsInFlight == CountKind(home.pulls, "sync")
UpdateTimers == CountKind(home.timers, "update")

(* C6: at most one conversation sync is in flight, at most one of its timers
   is pending, and none is pending while a sync is in flight (a call made
   during the flight starts no timer). *)
OneSyncAtATime ==
    /\ SyncsInFlight <= 1
    /\ UpdateTimers <= 1
    /\ SyncsInFlight > 0 => UpdateTimers = 0

\* The steps that call updateConversationsSilently
SyncCalls == {"conversationInterval", "focus", "focusResyncTimer"}

(* C7: a burst of calls of updateConversationsSilently, each made before the
   timer of the call before is due and none during a sync's flight, keeps one
   timer pending, restarted at the full delay by every call; no pull starts
   while it is pending, and once it is gone exactly one pull has started,
   unless the focus cleanup cleared it, and then none has. *)
BurstYieldsOnePull ==
    (home.burst.calls > 0 /\ home.burst.clean) =>
        /\ UpdateTimers <= 1
        /\ UpdateTimers = 1 => home.burst.pulls = 0
        /\ UpdateTimers = 0 => home.burst.pulls = (IF home.burst.cancelled THEN 0 ELSE 1)
        /\ last.op \in SyncCalls =>
              \A i \in 1..Len(home.timers) :
                  home.timers[i].kind = "update" => home.timers[i].rem = UpdateDebounce

\* A burst of several calls is over, and its one pull has started
BurstOfCallsOver ==
    /\ home.burst.calls >= 2 /\ home.burst.clean /\ ~home.burst.cancelled
    /\ UpdateTimers = 0
    /\ home.burst.pulls = 1

(* C8: no pull of the 30 s presence refresh is in flight together with a pull
   of a sync the 20 s interval has called for (in this specification the
   interval is the only caller from the mount effect's closure). *)
CadencePullsNeverOverlap ==
    ~ \E i, j \in 1..Len(home.pulls) :
         /\ home.pulls[i].kind = "presence"
         /\ home.pulls[j].kind = "sync" /\ home.pulls[j].cl = "mount"

(* C9: whenever the in-flight flag of the conversation sync is set, it is
   cleared later: the pull of every sync that has started returns with
   success, with success = false or by throwing, and each of the three
   clears the flag; a call made while the flag is clear starts the timer. *)
InFlightFlagIsCleared ==
    /\ home.isUpdatingConversations ~> ~home.isUpdatingConversations
    /\ [][ (last'.op \in SyncCalls /\ ~home.isUpdatingConversations)
            => CountKind(home'.timers, "update") = 1 ]_vars

\* A sync whose pull threw is over and the flag is cleared
FailedSyncCleared ==
    /\ last.op = "syncDone" /\ last.payload = "error"
    /\ ~home.isUpdatingConversations
    /\ SyncsInFlight = 0

(* C10: every emit of a send operation happens while the adapter is connected
   and the server has accepted its authenticate command. *)
SendsOnlyWhenAuthenticated ==
    (last.op \in SendOps /\ last.emits # <<>>) => (sock.isConnected /\ sock.authed)

(* C11: in every connect cycle and every reconnect cycle, once the transport
   is up and the socket has reported what it had to report, the adapter has
   emitted exactly one authenticate command. *)
OneAuthenticatePerCycle ==
    (sock.socket /\ sock.link = "up" /\ ~sock.reconnectDue) => sock.cycleAuths = 1

(* C12: a heartbeat command is emitted only between an authenticated event and
   the next disconnect: whenever the interval emits one, the transport is up
   and the server has accepted the authenticate command of this connection. *)
HeartbeatOnlyWhileAuthenticated ==
    (last.op = "heartbeat" /\ last.emits # <<>>) => (sock.link = "up" /\ sock.authed)

(* C13: after a session teardown the socket is closed and the heartbeat timer
   is stopped, and neither a heartbeat nor an authenticate command is emitted. *)
TeardownClosesSocket ==
    store.route = "login" =>
        /\ ~sock.socket
        /\ ~sock.heartbeatInterval
        /\ last.op \in {"heartbeat", "connect", "reconnect"} => last.emits = <<>>

(* C14: a pull of the list screen that fails with a 401, whichever of
   loadConversations, refreshUserStatus and the silent sync made it, ends with
   the stored credentials removed and the router on the login screen. *)
UnauthorizedPullTearsDown ==
    (last.op \in {"loadConversationsDone", "refreshUserStatusDone", "syncDone"}
        /\ last.payload = "unauthorized")
    => (~store.authToken /\ store.route = "login")

\* The steps in which a pull of the list screen returns
PullReturns == {"loadConversationsDone", "refreshUserStatusDone", "syncDone"}

(* C15: a pull of the list screen that fails with an error other than a 401,
   or returns success = false, leaves the conversation list and the typing map
   as they were, and stops no later pull: the intervals keep running, the
   pending timers stay, the session is kept and a failed sync clears its
   in-flight flag. *)
FailedPullChangesNothing ==
    [][ (last'.op \in PullReturns /\ last'.payload \in {"fail", "error"}) =>
          /\ home'.conversations = home.conversations
          /\ home'.typingUsers = home.typingUsers
          /\ home'.intervals = home.intervals
          /\ home'.timers = home.timers
          /\ store' = store
          /\ last'.op = "syncDone" => ~home'.isUpdatingConversations ]_vars

\* A pull has failed on a list that holds a conversation and a typing user
FailedPullOnFilledList ==
    /\ last.op \in PullReturns /\ last.payload \in {"fail", "error"}
    /\ home.conversations # <<>> /\ home.typingUsers # {}
    /\ home.intervals

(* C16: the first application of a message:new event to a conversation of the
   list raises its unread count by exactly 1 when the sender is not the local
   user and leaves it as it was when the sender is the local user; the last
   message's content, time and sender are those of the event in both cases. *)
UnreadRaisedIffForeignSender ==
    [][ (/\ last'.op = "message:new" /\ ~last'.dup
         /\ HasConversation(home.conversations, last'.payload.conversationId))
        => LET m == last'.payload
               before == FindConversation(home.conversations, m.conversationId)
               after == FindConversation(home'.conversations, m.conversationId)
           IN /\ HasConversation(home'.conversations, m.conversationId)
              /\ after.unread_count =
                    IF m.sender_id # home.currentUser
                    THEN before.unread_count + 1
                    ELSE before.unread_count
              /\ after.last_message = m.content
              /\ after.last_message_time = m.created_at
              /\ after.last_message_sender_id = m.sender_id ]_vars

\* The unread count and the last-message summary the list holds for a conversation
SummaryOf(convs, id) ==
    LET conv == FindConversation(convs, id)
    IN << conv.unread_count, conv.last_message, conv.last_message_time,
          conv.last_message_sender_id >>

(* C17: for a conversation the list holds, the merge of a snapshot that carries
   it and the application of a message event for it give the same unread count
   and last-message summary in either order. *)
MergeAndMessageCommute ==
    \A raw \in MergeSnapshots, m \in ListMessages, cl \in {"mount", "focus"} :
        (/\ HasConversation(home.conversations, m.conversationId)
         /\ HasConversation(raw, m.conversationId))
        => LET user == home.closure[cl].currentUser
               snapshot == ProcessConversations(raw)
               eventFirst ==
                   MergeSnapshot(
                       UpdateConversationWithNewMessage(home.conversations, user, m),
                       snapshot)
               mergeFirst ==
                   UpdateConversationWithNewMessage(
                       MergeSnapshot(home.conversations, snapshot), user, m)
           IN SummaryOf(eventFirst, m.conversationId) = SummaryOf(mergeFirst, m.conversationId)

(* C18: the first application of a message:new event that names a
   conversation the list does not hold starts a pull of all conversations for
   that id and inserts nothing by itself; when the pull's response carries the
   id, the conversation is in the list afterwards, put in front as the
   response gives it unless the list got it meanwhile; when the response does
   not carry it, the list is unchanged and a silent sync is scheduled. *)
UnknownConversationIsPulled ==
    [][ /\ (/\ last'.op = "message:new" /\ ~last'.dup
            /\ ~HasConversation(home.conversations, last'.payload.conversationId))
           => /\ home'.conversations = home.conversations
              /\ CountKind(home'.pulls, "checkAdd") = CountKind(home.pulls, "checkAdd") + 1
              /\ \E i \in 1..Len(home'.pulls) :
                    /\ home'.pulls[i].kind = "checkAdd"
                    /\ home'.pulls[i].conv = last'.payload.conversationId
        /\ \A raw \in ListSnapshots, p \in 1..Len(home.pulls) :
              CheckAddDone(p, "ok", raw) =>
                LET id == home.pulls[p].conv
                IN IF HasConversation(raw, id)
                   THEN /\ HasConversation(home'.conversations, id)
                        /\ home'.conversations =
                              IF HasConversation(home.conversations, id)
                              THEN home.conversations
                              ELSE <<ProcessConversation(FindConversation(raw, id))>>
                                       \o home.conversations
                   ELSE /\ home'.conversations = home.conversations
                        /\ CountKind(home'.timers, "update") = 1 ]_vars

\* The pull started for a message of an unknown conversation has returned it
\* and the conversation is now the first of the list
UnknownConversationInserted ==
    /\ last.op = "checkAddDone" /\ last.payload = "ok"
    /\ MessageKey(CHOOSE m \in ListMessages : m.conversationId = ConvB)
           \in home.processedMessageKeys
    /\ Len(home.conversations) = 2
    /\ home.conversations[1].conversation_id = ConvB

(* C19: the list holds at most one entry for a conversation id, whatever the
   order of snapshot merges, message events and insertions of new
   conversations (every snapshot holds an id once). *)
OneEntryPerConversation ==
    \A i, j \in 1..Len(home.conversations) :
        home.conversations[i].conversation_id = home.conversations[j].conversation_id
            => i = j

\* The pull started for a message of a conversation has returned it after the
\* list had got the conversation from a sync and counted the message as unread
InsertionFoundConversationHeld ==
    /\ last.op = "checkAddDone" /\ last.payload = "ok"
    /\ HasConversation(home.conversations, ConvB)
    /\ FindConversation(home.conversations, ConvB).unread_count = 1

(* C20: a user_status_change event sets the online flag of the conversations
   whose other_user_id is the event's userId and changes nothing else: every
   other field of these conversations (unread count, last message's content,
   time and sender included) and every conversation of another participant
   stay as they were, and no conversation is added or removed. *)
StatusChangeTouchesPresenceOnly ==
    [][ last'.op = "user_status_change" =>
          /\ Len(home'.conversations) = Len(home.conversations)
          /\ \A i \in 1..Len(home.conversations) :
                home'.conversations[i] =
                    IF home.conversations[i].other_user_id = last'.payload.userId
                    THEN [home.conversations[i] EXCEPT !.other_user_online = last'.payload.isOnline]
                    ELSE home.conversations[i] ]_vars

\* The participant of the second conversation has gone offline: the list shows
\* it, the first conversation's participant is still online and its unread
\* count is kept
ParticipantWentOffline ==
    /\ last.op = "user_status_change"
    /\ last.payload.userId = Third /\ ~last.payload.isOnline
    /\ HasConversation(home.conversations, ConvA)
    /\ HasConversation(home.conversations, ConvB)
    /\ ~FindConversation(home.conversations, ConvB).other_user_online
    /\ FindConversation(home.conversations, ConvA).other_user_online
    /\ FindConversation(home.conversations, ConvA).unread_count = 1

\* The fields of a conversation the presence refresh may change
PresenceFields == {"other_user_online", "other_user_last_seen"}

(* C21: the presence refresh removes no conversation of the list, one the
   snapshot lacks included, adds none, keeps their order, and changes no field
   of a conversation other than other_user_online and other_user_last_seen. *)
PresenceRefreshKeepsList ==
    [][ last'.op = "refreshUserStatusDone" =>
          /\ Len(home'.conversations) = Len(home.conversations)
          /\ \A i \in 1..Len(home.conversations) :
                /\ DOMAIN home'.conversations[i] = DOMAIN home.conversations[i]
                /\ \A f \in DOMAIN home.conversations[i] \ PresenceFields :
                      home'.conversations[i][f] = home.conversations[i][f] ]_vars

\* A refresh has taken the first conversation's participant offline from a
\* snapshot that lacks the second conversation, which is still listed
PresenceRefreshedPartOfList ==
    /\ last.op = "refreshUserStatusDone" /\ last.payload = "ok"
    /\ Len(home.conversations) = 2
    /\ ~FindConversation(home.conversations, ConvA).other_user_online
    /\ ~FindConversation(home.conversations, ConvB).other_user_online

(* C22: a snapshot merge of the silent sync leaves the typing state alone:
   typingUsers is the same after the merge as before, and every conversation
   of the list that the snapshot carries has the other_user_typing it had
   before the merge, whatever the snapshot says of it. *)
MergeKeepsTypingState ==
    [][ last'.op = "syncDone" =>
          /\ home'.typingUsers = home.typingUsers
          /\ \A i \in 1..Len(home.conversations) :
                HasConversation(home'.conversations, home.conversations[i].conversation_id)
                => FindConversation(home'.conversations,
                                    home.conversations[i].conversation_id).other_user_typing
                     = home.conversations[i].other_user_typing ]_vars

\* A merge has taken the last message of a snapshot without a typing flag
\* into a conversation whose flag is set, while a participant is typing
MergedUnderTyping ==
    /\ last.op = "syncDone" /\ last.payload = "ok"
    /\ home.typingUsers # {}
    /\ HasConversation(home.conversations, ConvA)
    /\ FindConversation(home.conversations, ConvA).other_user_typing
    /\ FindConversation(home.conversations, ConvA).last_message = "a"

(* C23: a typing:start, typing:stop or user_typing_status event whose userId
   is the local user's id sets no typing indicator: it adds no entry to the
   list screen's typingUsers and does not set the chat screen's isTyping. *)
SelfTypingNeverShown ==
    [][ /\ last'.op \in {"typing:start", "typing:stop", "user_typing_status"}
        /\ last'.payload.userId = Me
        => /\ home'.typingUsers \subseteq home.typingUsers
           /\ chat'.isTyping => chat.isTyping ]_vars

\* The pending typing-stop timers of the chat screen
TypingStopTimers == CountKind(chat.timers, "typingStop")

(* C24: the chat screen has at most one typing-stop timer pending at any
   time.  A keystroke of a loaded user sends typing:start and leaves exactly
   one timer, with the full delay ahead of it, so the timer fires only after
   1 s without a keystroke; when it fires it sends one typing:stop and leaves
   no timer behind, so a burst of keystrokes ends in exactly one timer-driven
   typing:stop. *)
OneTypingStopTimer ==
    /\ [](TypingStopTimers <= 1)
    /\ [][ /\ (last'.op = "handleTyping" /\ chat.currentUser # NoUser
                => /\ last'.emits = <<"typing:start">>
                   /\ TypingStopTimers' = 1
                   /\ \A i \in 1..Len(chat'.timers) :
                         chat'.timers[i].kind = "typingStop"
                         => chat'.timers[i].rem = TypingStop)
            /\ (last'.op = "typingStopTimer"
                => last'.emits = <<"typing:stop">> /\ TypingStopTimers' = 0) ]_vars

\* A keystroke has found a typing-stop timer pending and has left one, its own
KeystrokeReplacedTimer ==
    /\ last.op = "handleTyping" /\ last.payload.pending = 1
    /\ TypingStopTimers = 1

(* C25: once the chat screen is torn down its timers are released: a
   typing-stop timer that was pending at the teardown sends no typing:stop
   when its delay runs out, and the 10 s status interval fires no more. *)
ChatTeardownReleasesTimers ==
    [][ ~chat.mounted
        => /\ (last'.op = "typingStopTimer" => last'.emits = <<>>)
           /\ last'.op # "chatStatusInterval" ]_vars

(* C26: handleSendMessage with a text that is not blank puts the message into
   the chat screen's list at once, as a message of the local user that is
   neither delivered nor read. *)
SentMessageListedAtOnce ==
    [][ last'.op = "handleSendMessage"
        => /\ Len(chat'.messages) = Len(chat.messages) + 1
           /\ LET msg == chat'.messages[Len(chat'.messages)]
              IN /\ msg.content = last'.payload
                 /\ msg.sender_id = chat.currentUser
                 /\ ~msg.is_delivered /\ ~msg.is_read ]_vars

(* C27: a message of the local user that message:delivered has marked is
   Read once a message:read of its conversation with its id in messageIds
   arrives: is_delivered and is_read are both true and the screen renders the
   read indicator for it. *)
SentDeliveredReadEndsRead ==
    [][ /\ last'.op = "message:read"
        /\ last'.payload.conversationId = OpenConversation
        /\ chat.currentUser = Me
        => \A i \in 1..Len(chat.messages) :
              /\ chat.messages[i].sender_id = Me
              /\ chat.messages[i].is_delivered
              /\ chat.messages[i].id \in last'.payload.messageIds
              => LET after == chat'.messages[i]
                 IN /\ after.id = chat.messages[i].id
                    /\ after.is_delivered /\ after.is_read
                    /\ GetTickStatus(chat', after) = "read" ]_vars

\* The read event naming the local user's message has arrived after its
\* delivery, and the message shows the read indicator
OwnMessageShownRead ==
    /\ last.op = "message:read" /\ "102" \in last.payload.messageIds
    /\ \E i \in 1..Len(chat.messages) :
          /\ chat.messages[i].id = "102" /\ chat.messages[i].sender_id = Me
          /\ chat.messages[i].is_delivered
          /\ GetTickStatus(chat, chat.messages[i]) = "read"

(* C28: a message:read event of the open conversation that carries the
   reader's user id marks as read every message of the chat screen's list that
   was addressed to that reader, that is, sent by anyone else. *)
ReadEventMarksAllForReader ==
    [][ /\ last'.op = "message:read"
        /\ last'.payload.conversationId = OpenConversation
        /\ last'.payload.userId = OtherUserId
        => /\ Len(chat'.messages) = Len(chat.messages)
           /\ \A i \in 1..Len(chat.messages) :
                 chat.messages[i].sender_id # last'.payload.userId
                 => chat'.messages[i].is_read ]_vars

(* C29: a user_status_change event that reports the other participant of the
   open chat online turns is_delivered true on every message of the list that
   the local user sent, and changes no message of the other participant. *)
OnlinePromotesOwnMessages ==
    [][ /\ last'.op = "user_status_change"
        /\ last'.payload.userId = OtherUserId /\ last'.payload.isOnline
        /\ chat.currentUser = Me
        => /\ Len(chat'.messages) = Len(chat.messages)
           /\ \A i \in 1..Len(chat.messages) :
                 IF chat.messages[i].sender_id = Me
                 THEN chat'.messages[i].is_delivered
                 ELSE chat'.messages[i] = chat.messages[i] ]_vars

(* C30: a message:read or conversation_opened event that carries the local
   user's id and the id of a conversation of the list sets the unread count of
   that conversation to 0 and changes no other conversation. *)
OwnAcknowledgmentClearsUnread ==
    [][ /\ last'.op \in {"message:read", "conversation_opened"}
        /\ last'.payload.userId = home.currentUser
        /\ HasConversation(home.conversations, last'.payload.conversationId)
        => /\ Len(home'.conversations) = Len(home.conversations)
           /\ \A i \in 1..Len(home.conversations) :
                 IF home.conversations[i].conversation_id = last'.payload.conversationId
                 THEN home'.conversations[i] =
                          [home.conversations[i] EXCEPT !.unread_count = 0]
                 ELSE home'.conversations[i] = home.conversations[i] ]_vars

\* The conversation of the list shows the message as its last message
ShownAsLast(h, m) ==
    /\ HasConversation(h.conversations, m.conversationId)
    /\ LET conv == FindConversation(h.conversations, m.conversationId)
       IN /\ conv.last_message = m.content
          /\ conv.last_message_time = m.created_at
          /\ conv.last_message_sender_id = m.sender_id

(* C31: a message of the other participant counts once in a conversation's
   unread count: a message:new event for a message the list already shows as
   the conversation's last message, brought by a snapshot or by an earlier
   event, does not raise the count again. *)
MessageCountedOnce ==
    [][ /\ last'.op = "message:new"
        /\ last'.payload.sender_id # Me
        /\ ShownAsLast(home, last'.payload)
        => UnreadOf(home', last'.payload.conversationId)
             = UnreadOf(home, last'.payload.conversationId) ]_vars

(* C32: a message that a message:new event has put into the chat screen's
   list is never taken out of it while the screen is up; a loadMessages
   response that arrives after the event and lacks the message keeps it. *)
AppendedMessageStays ==
    [][ last'.op # "chatMount"
        => \A i \in 1..Len(chat.messages) :
              HasMessage(chat'.messages, chat.messages[i].id) ]_vars

(* C33: the chat screen's teardown removes the handlers the chat screen
   registered and no others: the adapter's lifecycle handlers and the list
   screen's handlers that were on the socket before it are on it afterwards. *)
TeardownKeepsOtherHandlers ==
    [][ last'.op = "chatUnmount"
        => \A i \in 1..Len(sock.handlers) :
              sock.handlers[i].owner # "chat"
              => \E j \in 1..Len(sock'.handlers) :
                    sock'.handlers[j] = sock.handlers[i] ]_vars

(* C34: once the list screen is torn down nothing a timer of the screen
   drives runs: no debounce timer, no 100 ms or 500 ms focus timer and neither
   interval starts a pull or a typing re-subscription. *)
HomeTeardownStopsTimers ==
    [][ ~home.mounted
        => last'.op \notin {"updateTimer", "typingTimer", "focusResyncTimer",
                            "focusTypingTimer", "statusInterval",
                            "conversationInterval"} ]_vars

\* The handlers of the list screen that the socket holds for an event
HomeHandlersOf(sk, event) ==
    LET Of(i) == IF sk.handlers[i].owner = "home"
                 THEN {fn \in sk.handlers[i].fns : EventOf(fn) = event} ELSE {}
        RECURSIVE Sum(_)
        Sum(i) == IF i = 0 THEN 0 ELSE Cardinality(Of(i)) + Sum(i - 1)
    IN Sum(Len(sk.handlers))

\* The events the list screen listens to
HomeEvents == {EventOf(fn) : fn \in HomeListeners("mount")[1].fns}

(* C35: a typing re-subscription, which runs setupSocketListeners again, does
   not add to the handlers of an event that has one: after it the list screen
   handles each inbound event at most once, or no more often than before. *)
ResubscriptionAddsNoHandler ==
    [][ last'.op = "typingTimer"
        => \A e \in HomeEvents :
              \/ HomeHandlersOf(sock', e) <= 1
              \/ HomeHandlersOf(sock', e) <= HomeHandlersOf(sock, e) ]_vars

(* C36: when the list screen of a logged-in user gains focus while no sync is
   in flight, the call the focus callback makes at once and the one it makes
   100 ms later end in one pull: the first call leaves one debounce timer and
   the 100 ms timer pending and starts no pull, the second restarts the one
   debounce timer at its full delay and starts no pull, and when the timer
   has fired, the screen having kept its focus, exactly one pull has started. *)
FocusRegainYieldsOnePull ==
    /\ [][ /\ (last'.op = "focus" /\ SyncsInFlight = 0
                => /\ UpdateTimers' = 1
                   /\ CountKind(home'.timers, "focusResync") = 1
                   /\ SyncsInFlight' = 0)
            /\ (last'.op = "focusResyncTimer" /\ SyncsInFlight = 0
                => /\ UpdateTimers' = 1
                   /\ SyncsInFlight' = 0
                   /\ \A i \in 1..Len(home'.timers) :
                         home'.timers[i].kind = "update"
                         => home'.timers[i].rem = UpdateDebounce) ]_vars
    /\ []( /\ last.op = "updateTimer"
           /\ home.burst.clean /\ ~home.burst.cancelled
           => home.burst.pulls = 1 /\ UpdateTimers = 0 )

\* The debounce timer that the two calls of a focus regain shared has fired
\* and started the one pull of the regain
FocusRegainPulled ==
    /\ last.op = "updateTimer"
    /\ home.focused /\ home.burst.calls = 2
    /\ home.burst.clean /\ ~home.burst.cancelled /\ home.burst.pulls = 1
    /\ CountKind(home.timers, "focusResync") = 0
    /\ \E i \in 1..Len(home.pulls) :
          home.pulls[i].kind = "sync" /\ home.pulls[i].cl = "focus"
    /\ SyncsInFlight = 1

(* C37: the 1 s timer of the newest message:new event that the list screen
   processed requests a silent sync when it fires: the debounce timer of the
   sync is pending afterwards. *)
NewestMessageTimerRequestsSync ==
    [][ /\ last'.op = "messageSyncTimer"
        /\ \A i \in 1..Len(home.timers) :
              home.timers[i].kind = "msgSync"
              => home.timers[i].now = home.lastMessageUpdate
        => CountKind(home'.timers, "update") >= 1 ]_vars

(* C38: a full load does not lower an unread count: a conversation of the
   list that the response carries with the same last-message time, content
   and sender has afterwards a count at least as large as before. *)
FullLoadKeepsUnread ==
    [][ last'.op = "loadConversationsDone"
        => \A i \in 1..Len(home.conversations) :
              LET loc == home.conversations[i]
              IN HasConversation(home'.conversations, loc.conversation_id)
                 => LET new == FindConversation(home'.conversations, loc.conversation_id)
                    IN SameLastMessage(loc, new)
                       => new.unread_count >= loc.unread_count ]_vars

\* No two messages of the list share an id
IdsDistinct(msgs) ==
    \A i, j \in 1..Len(msgs) : i # j => msgs[i].id # msgs[j].id

(* C39: the chat screen's message list never holds two messages with the
   same id; a message:new event whose id the list already holds leaves the
   list as it is, and an event of a conversation other than the open one
   appends nothing. *)
ChatListHasNoDuplicateId ==
    /\ [] IdsDistinct(chat.messages)
    /\ [][ last'.op = "message:new"
           => /\ HasMessage(chat.messages, last'.payload.id)
                    => chat'.messages = chat.messages
              /\ last'.payload.conversationId # OpenConversation
                    => chat'.messages = chat.messages
              /\ Len(chat'.messages) <= Len(chat.messages) + 1 ]_vars

\* A second copy of a message the list holds has arrived, reporting it as
\* delivered, and the list still holds its first copy alone
DuplicateEventDiscarded ==
    /\ last.op = "message:new"
    /\ last.payload.conversationId = OpenConversation
    /\ last.payload.deliveryStatus = "delivered"
    /\ HasMessage(chat.messages, last.payload.id)
    /\ ~HeldMessage(chat.messages, last.payload.id).is_delivered
    /\ IdsDistinct(chat.messages)

====
